---------------------------- MODULE Spec2Model ----------------------------
(***************************************************************************)
(* Leave tracker service: the approval saga.                               *)
(*                                                                         *)
(*   leave_generate  (submit)   src/src/functions/leave_generate.ts 14-118 *)
(*   resume_machine  (resolve)  src/src/functions/leave_generate.ts 136-217*)
(*   notify_users    (handler)  src/src/functions/notify_users.ts 38-317   *)
(*   getLeaveId, Leave          src/src/types.ts                           *)
(*                                                                         *)
(* Every handler is an async function: between two awaited collaborator    *)
(* calls other invocations may run, so each awaited call is one step.      *)
(* Strings are TLA+ strings; an item of the leave table is a function from *)
(* attribute names to string values, so that attribute_not_exists, SET and *)
(* REMOVE act on the attribute set as the store does.                      *)
(***************************************************************************)
EXTENDS Integers, Sequences, FiniteSets, TLC

(***************************************************************************)
(* Bounds of the model.                                                    *)
(***************************************************************************)
\* concurrent invocations of leave_generate
MaxSubmits == 2
\* concurrent invocations of resume_machine
MaxResolves == 1
\* the clock advances at most this many times
MaxTicks == 1
\* executions the engine starts
MaxExecs == 2

(***************************************************************************)
(* The instants of the model, in milliseconds.  A raw date string of the   *)
(* request body parses to one of them, or to NaN.                          *)
(***************************************************************************)
NaN == -1

\* new Date(): the clock after n ticks
Clock(n) == 3000 + 1000 * n

RawDates == {"2020-01-01", "2026-12-01", "2026-12-05", "soon"}

Instants == {1000, 3000, 7000}

\* Date.prototype.toISOString of a valid instant
ToISOString(ms) == "iso:" \o ToString(ms)

\* new Date(str).getTime(): a calendar date, an ISO string, else NaN
DateParse(str) ==
    CASE str = "2020-01-01" -> 1000
      [] str = "2026-12-01" -> 3000
      [] str = "2026-12-05" -> 7000
      [] \E t \in Instants : str = ToISOString(t) ->
             CHOOSE t \in Instants : str = ToISOString(t)
      [] OTHER -> NaN

validateDate(dateStr) == DateParse(dateStr) # NaN

(***************************************************************************)
(* getLeaveId: sha256 over `${applicantId}-${from ms}-${to ms}`, base64url *)
(* encoded, behind the LEAVE# prefix.  The hash is collision free on the   *)
(* inputs of the model and its encoding holds no '#'.                      *)
(***************************************************************************)
Sha256Base64Url(text) == "h(" \o text \o ")"

getLeaveId(applicantId, fromMs, toMs) ==
    "LEAVE#" \o Sha256Base64Url(
        applicantId \o "-" \o ToString(fromMs) \o "-" \o ToString(toMs))

\* the positions of sep in str
SepPositions(str, sep) == {i \in 1..Len(str) : SubSeq(str, i, i) = sep}

SetMin(S) == CHOOSE x \in S : \A y \in S : x <= y

\* str.split("#")[1]; "undefined" when str holds no '#'
SplitHashSecond(str) ==
    LET ps == SepPositions(str, "#")
    IN  IF ps = {} THEN "undefined"
        ELSE LET p1 == SetMin(ps)
                 later == {p \in ps : p > p1}
                 p2 == IF later = {} THEN Len(str) + 1 ELSE SetMin(later)
             IN  SubSeq(str, p1 + 1, p2 - 1)

(***************************************************************************)
(* JavaScript values: undefined, and truthiness of a string.               *)
(***************************************************************************)
Undefined == "undefined"

Truthy(v) == v # Undefined /\ v # ""

(***************************************************************************)
(* validateDateInputs and its parts.  The runtime's time zone is UTC, and  *)
(* a calendar day of the model lasts DayMs instants: setHours moves an     *)
(* instant within its day.                                                 *)
(***************************************************************************)
DayMs == 1000

Digits == "0123456789"

\* every character of a non-empty string is a decimal digit
IsDigits(str) ==
    /\ Len(str) > 0
    /\ \A i \in 1..Len(str) : SepPositions(Digits, SubSeq(str, i, i)) # {}

RECURSIVE DigitsValue(_)
\* the number a string of digits spells
DigitsValue(str) ==
    IF Len(str) = 0 THEN 0
    ELSE DigitsValue(SubSeq(str, 1, Len(str) - 1)) * 10
         + SetMin(SepPositions(Digits, SubSeq(str, Len(str), Len(str)))) - 1

\* Number(str) of a string, and of undefined
ToNumber(str) ==
    IF str = Undefined THEN NaN
    ELSE IF Len(str) = 0 THEN 0
    ELSE IF IsDigits(str) THEN DigitsValue(str)
    ELSE NaN

\* str.split(":")[0] and str.split(":")[1]
SplitColon(str) ==
    LET ps == SepPositions(str, ":")
    IN  IF ps = {} THEN <<str, Undefined>>
        ELSE LET p1 == SetMin(ps)
                 later == {p \in ps : p > p1}
                 p2 == IF later = {} THEN Len(str) + 1 ELSE SetMin(later)
             IN  <<SubSeq(str, 1, p1 - 1), SubSeq(str, p1 + 1, p2 - 1)>>

\* /^([0-1]?\d|2[0-3]):([0-5]\d)$/.test(timeStr)
validateTime(timeStr) ==
    LET ps == SepPositions(timeStr, ":")
    IN  /\ Cardinality(ps) = 1
        /\ LET p == SetMin(ps)
               hh == SubSeq(timeStr, 1, p - 1)
               mm == SubSeq(timeStr, p + 1, Len(timeStr))
           IN  /\ IsDigits(hh) /\ IsDigits(mm)
               /\ Len(mm) = 2 /\ DigitsValue(SubSeq(mm, 1, 1)) <= 5
               /\ Len(hh) = 1 \/ (Len(hh) = 2 /\ DigitsValue(hh) <= 23)

\* the instants into its day that date.setHours(hours, minutes, 0, 0) sets
TimeOffset(hours, minutes) ==
    IF hours = NaN \/ minutes = NaN THEN NaN
    ELSE ((hours * 60 + minutes) * DayMs) \div 1440

\* date.setHours(...) on new Date(ms): the day of ms at the offset
SetHours(ms, offset) ==
    IF ms = NaN \/ offset = NaN THEN NaN
    ELSE (ms \div DayMs) * DayMs + offset

\* date.setHours(hours, minutes, 0, 0) with [hours, minutes] of timeStr
SetHoursOf(ms, timeStr) ==
    LET parts == SplitColon(timeStr)
    IN  SetHours(ms, TimeOffset(ToNumber(parts[1]), ToNumber(parts[2])))

\* a > b and a < b on Date objects: false when either is an Invalid Date
DateLater(a, b) == a # NaN /\ b # NaN /\ a > b

DateEarlier(a, b) == a # NaN /\ b # NaN /\ a < b

ValidResult == [valid |-> TRUE, message |-> ""]

InvalidResult(message) == [valid |-> FALSE, message |-> message]

validateDateAndFormat(from, to, fromTime, toTime) ==
    IF ~validateDate(from) \/ ~validateDate(to)
    THEN InvalidResult("Invalid date format ex: (MM/DD/YYYY), (YYYY-MM-DD)")
    ELSE IF Truthy(fromTime) /\ ~validateTime(fromTime)
    THEN InvalidResult(
             "Invalid fromTime format. Expected HH:MM in 24-hour format.")
    ELSE IF Truthy(toTime) /\ ~validateTime(toTime)
    THEN InvalidResult(
             "Invalid toTime format. Expected HH:MM in 24-hour format.")
    ELSE ValidResult

\* a day's end taken for its start
buildDateTime_NoEnd(dateStr, timeStr, defaultToEnd) ==
    IF Truthy(timeStr) THEN SetHoursOf(DateParse(dateStr), timeStr)
    ELSE SetHours(DateParse(dateStr), 0)

buildDateTime(dateStr, timeStr, defaultToEnd) ==
    IF Truthy(timeStr) THEN SetHoursOf(DateParse(dateStr), timeStr)
    ELSE IF defaultToEnd THEN SetHours(DateParse(dateStr), DayMs - 1)
    ELSE SetHours(DateParse(dateStr), 0)

validateFromToOrder(from, to, fromTime, toTime) ==
    IF ~Truthy(fromTime) /\ ~Truthy(toTime)
    THEN IF DateLater(buildDateTime(from, Undefined, FALSE),
                      buildDateTime(to, Undefined, FALSE))
         THEN InvalidResult("from date cannot be later than to date")
         ELSE ValidResult
    ELSE IF DateLater(buildDateTime(from, fromTime, FALSE),
                      buildDateTime(to, toTime, TRUE))
    THEN InvalidResult(
             IF Truthy(fromTime) /\ ~Truthy(toTime)
             THEN "from date and time cannot be later than to date"
             ELSE IF ~Truthy(fromTime) /\ Truthy(toTime)
             THEN "from date cannot be later than to date and time"
             ELSE "from date and time cannot be later than to date and time")
    ELSE ValidResult

\* clock is new Date()
validateNotPast(from, fromTime, clock) ==
    IF Truthy(fromTime)
       /\ DateEarlier(SetHoursOf(DateParse(from), fromTime), clock)
    THEN InvalidResult("from date and time cannot be in the past")
    ELSE IF DateEarlier(DateParse(from), clock)
    THEN InvalidResult("from date and time cannot be in the past")
    ELSE ValidResult

\* the first invalid result of a list, else valid
FirstInvalid(validations) ==
    LET bad == {i \in DOMAIN validations : ~validations[i].valid}
    IN  IF bad = {} THEN ValidResult ELSE validations[SetMin(bad)]

\* the earlier order of the checks: with a fromTime, the past before the
\* order of from and to
validateDateInputs_PastFirst(from, to, fromTime, toTime, clock) ==
    FirstInvalid(<<validateDateAndFormat(from, to, fromTime, toTime),
                   validateNotPast(from, fromTime, clock),
                   validateFromToOrder(from, to, fromTime, toTime)>>)

validateDateInputs(from, to, fromTime, toTime, clock) ==
    FirstInvalid(<<validateDateAndFormat(from, to, fromTime, toTime),
                   validateFromToOrder(from, to, fromTime, toTime),
                   validateNotPast(from, fromTime, clock)>>)

(***************************************************************************)
(* The identity context of a request and the administrator directory.     *)
(***************************************************************************)
Accounts == {"amy@corp"}

NameOf(userId) == "Amy"

\* the accounts the role index returns for role ADMIN
Admins == <<"amy@corp", "root@corp">>

\* the reason of a request body: absent, or given
Reasons == {Undefined}

(***************************************************************************)
(* State.                                                                  *)
(***************************************************************************)
VARIABLES
    table,   \* LEAVE_TABLE: leaveId -> item (attribute name -> value)
    execs,   \* the engine's executions, in start order
    ntf,     \* notify_users invocation of each execution: its position
    outbox,  \* the messages handed to the mail transport, in order
    sub,     \* leave_generate invocations in progress: position, locals
    res,     \* resume_machine invocations in progress: position, locals
    returned,\* what the last step returned to a caller, if it returned
    ticks,   \* clock ticks so far
    admins,  \* USER_TABLE: the emails the role index holds for role ADMIN
    faults,  \* the services whose calls fail with an error of their own
    pure     \* a function applied on its own: its arguments, then its result

vars == <<table, execs, ntf, outbox, sub, res, returned, ticks, admins, faults, pure>>

now == Clock(ticks)

(***************************************************************************)
(* The record store.                                                       *)
(***************************************************************************)
NoItem == <<>>

\* GetCommand: the item under the key, or none
GetItem(t, key) == IF key \in DOMAIN t THEN t[key] ELSE NoItem

\* item.attr, undefined for an absent attribute or item
Attr(item, name) == IF name \in DOMAIN item THEN item[name] ELSE Undefined

\* attribute_not_exists(name) against the item already stored under the key
AttributeNotExists(item, name) == name \notin DOMAIN item

\* a function with one more (or one overwritten) point
Assign(f, k, v) == [x \in DOMAIN f \cup {k} |-> IF x = k THEN v ELSE f[x]]

\* a function without one point
Without(f, k) == [x \in DOMAIN f \ {k} |-> f[x]]

\* UpdateCommand writes into the stored item, or into a new item holding
\* only the key when none is stored
UpdateBase(t, key) ==
    IF key \in DOMAIN t THEN t[key] ELSE [leaveId |-> key]

\* a write of the token that replaces the item, as a put would
SetTaskToken_Put(t, key, tt) ==
    Assign(t, key, [leaveId |-> key, task_token |-> tt])

\* UpdateExpression "SET task_token = :tt"
SetTaskToken(t, key, tt) ==
    Assign(t, key, Assign(UpdateBase(t, key), "task_token", tt))

\* an update that sets the status and forgets the REMOVE clause
RemoveTokenSetStatus_KeepToken(t, key, status) ==
    Assign(t, key, Assign(UpdateBase(t, key), "status", status))

\* UpdateExpression "REMOVE task_token SET #status = :accepted"
RemoveTokenSetStatus(t, key, status) ==
    Assign(t, key,
           Assign(Without(UpdateBase(t, key), "task_token"), "status", status))

(***************************************************************************)
(* new Leave(params)                                                       *)
(***************************************************************************)
Leave(params, clock) ==
    [leaveId |-> getLeaveId(params.applicantId,
                            DateParse(params.fromDate),
                            DateParse(params.toDate)),
     fromDate |-> params.fromDate,
     toDate |-> params.toDate,
     reason |-> params.reason,
     status |-> "PENDING",
     appliedOn |-> ToISOString(clock),
     applicantId |-> params.applicantId,
     applicantName |-> params.applicantName]

\* the name the PutCommand binds to #leaveId in ExpressionAttributeNames
PutConditionName(leaveObj) ==
    getLeaveId(leaveObj.applicantId,
               DateParse(leaveObj.fromDate),
               DateParse(leaveObj.toDate))

\* a condition on the key attribute: no item is stored under the key
PutConditionHolds_OnKey(t, leaveObj) ==
    GetItem(t, leaveObj.leaveId) = NoItem

\* ConditionExpression attribute_not_exists(#leaveId) of the PutCommand,
\* evaluated against the item stored under the new item's key
PutConditionHolds(t, leaveObj) ==
    AttributeNotExists(GetItem(t, leaveObj.leaveId), PutConditionName(leaveObj))

(***************************************************************************)
(* Responses and the calls an invocation made to its collaborators.        *)
(***************************************************************************)
ResponseObj(statusCode, message) ==
    [statusCode |-> statusCode, message |-> message]

NoResponse == ResponseObj(0, "")

\* the response of resume_machine's catch block: the error's message rides
\* along with the fixed text
ErrorResponse(error) ==
    [statusCode |-> 500, message |-> "Internal server error", error |-> error]

\* the text of the response to a request on a record already processed
ProcessedMessage(leaveId, status) ==
    "Leave with ID " \o leaveId
        \o " has been already processed with status " \o status

(***************************************************************************)
(* leave_generate: the checks on the event before any collaborator call.   *)
(* The event carries the body (absent, not a string, malformed JSON, or a  *)
(* JSON object with from, to, reason) and the authorizer's userId and      *)
(* userName.  The result is the early response, or NoResponse to go on.    *)
(***************************************************************************)
BodyKinds == {"absent", "object", "malformed", "json"}

SubmitInputs ==
    [bodyKind : BodyKinds,
     from : RawDates \cup {Undefined},
     to : RawDates \cup {Undefined},
     reason : Reasons,
     userId : Accounts \cup {""},
     named : BOOLEAN]

\* the event of an input: the authorizer supplies the account's name, or none
SubmitEvent(input) ==
    [bodyKind |-> input.bodyKind, from |-> input.from, to |-> input.to,
     reason |-> IF input.reason = Undefined THEN "" ELSE input.reason,
     userId |-> input.userId,
     userName |-> IF input.named /\ input.userId # ""
                  THEN NameOf(input.userId) ELSE ""]

\* a body that is no JSON object carries no fields
SubmitEvents ==
    {SubmitEvent(input) : input \in
        {i \in SubmitInputs :
            i.bodyKind # "json" =>
                i.from = Undefined /\ i.to = Undefined /\ i.reason = Undefined}}

\* a validation without the comparison of from and to
ValidateSubmit_NoOrder(event, clock) ==
    IF event.bodyKind \in {"absent", "object"}
    THEN ResponseObj(400, "Invalid request body")
    ELSE IF event.bodyKind = "malformed"
    THEN ResponseObj(500, "Internal server error")
    ELSE IF ~Truthy(event.from) \/ ~Truthy(event.to)
    THEN ResponseObj(400, "from and to are required")
    ELSE IF ~validateDate(event.from) \/ ~validateDate(event.to)
    THEN ResponseObj(400, "Invalid date format ex: (MM/DD/YYYY), (YYYY-MM-DD)")
    ELSE IF DateParse(event.from) < clock
    THEN ResponseObj(400, "from date cannot be in the past")
    ELSE IF ~Truthy(event.userId) \/ ~Truthy(event.userName)
    THEN ResponseObj(400, "Unauthorized entity")
    ELSE NoResponse

ValidateSubmit(event, clock) ==
    IF event.bodyKind \in {"absent", "object"}
    THEN ResponseObj(400, "Invalid request body")
    ELSE IF event.bodyKind = "malformed"
    THEN ResponseObj(500, "Internal server error")
    ELSE IF ~Truthy(event.from) \/ ~Truthy(event.to)
    THEN ResponseObj(400, "from and to are required")
    ELSE IF ~validateDate(event.from) \/ ~validateDate(event.to)
    THEN ResponseObj(400, "Invalid date format ex: (MM/DD/YYYY), (YYYY-MM-DD)")
    ELSE IF DateParse(event.from) > DateParse(event.to)
    THEN ResponseObj(400, "from cannot be later than to")
    ELSE IF DateParse(event.from) < clock
    THEN ResponseObj(400, "from date cannot be in the past")
    ELSE IF ~Truthy(event.userId) \/ ~Truthy(event.userName)
    THEN ResponseObj(400, "Unauthorized entity")
    ELSE NoResponse

\* the key of the pre-check GetCommand
ExistingLeaveKey(event) ==
    getLeaveId(event.userId, DateParse(event.from), DateParse(event.to))

\* a pre-check that lets every request through
ExistingIsPending_Skipped(existingLeave) == FALSE

\* the pre-check: an existing item with status PENDING ends the request
ExistingIsPending(existingLeave) == Attr(existingLeave, "status") = "PENDING"

\* the Leave built from the request
LeaveOfEvent(event, clock) ==
    Leave([fromDate |-> ToISOString(DateParse(event.from)),
           toDate |-> ToISOString(DateParse(event.to)),
           reason |-> event.reason,
           applicantId |-> event.userId,
           applicantName |-> event.userName], clock)

\* Math.floor(x / 1000) for an integer x
FloorDiv1000(x) == x \div 1000

\* the input of the StartExecutionCommand: type, timeout, ...leaveObj
StartInput(event, leaveObj) ==
    Assign(Assign(leaveObj, "type", "request"),
           "timeoutSecondsForRequest",
           FloorDiv1000(DateParse(event.to) - DateParse(event.from)))

(***************************************************************************)
(* notify_users: from the event to the message it sends and the update it  *)
(* constructs, or the error it throws before sending anything.             *)
(***************************************************************************)
LowerLetters == "abcdefghijklmnopqrstuvwxyz"

UpperLetters == "ABCDEFGHIJKLMNOPQRSTUVWXYZ"

\* one character of toUpperCase: a lower-case letter becomes its capital
UpperChar(c) ==
    LET ps == SepPositions(LowerLetters, c)
    IN  IF ps = {} THEN c
        ELSE LET i == SetMin(ps) IN SubSeq(UpperLetters, i, i)

\* a switch on the type as given
ToUpperCase_Identity(type) == type

RECURSIVE ToUpperCase(_)
\* String.prototype.toUpperCase
ToUpperCase(type) ==
    IF Len(type) = 0 THEN ""
    ELSE UpperChar(SubSeq(type, 1, 1)) \o ToUpperCase(SubSeq(type, 2, Len(type)))

ApiBaseUrl == "https://api"

\* an audience that keeps every administrator
AdminEmails_All(items, applicantId) == items

\* resp.Items.filter(admin => admin.email !== applicantId).map(email)
AdminEmails(items, applicantId) ==
    SelectSeq(items, LAMBDA email : email # applicantId)

ActionUrl(action, leaveId) ==
    ApiBaseUrl \o "/leave/" \o action \o "/" \o SplitHashSecond(leaveId)

NoMail == [subject |-> "", recipients |-> <<>>, acceptUrl |-> "", rejectUrl |-> ""]

NoCommand == [op |-> "none", key |-> "", value |-> ""]

NotifyPlan(error, mail, command) ==
    [error |-> error, mail |-> mail, command |-> command]

\* an identity derived with the two instants in the other order
NotifyLeaveId_Swapped(input) ==
    getLeaveId(input.applicantId, DateParse(input.toDate),
               DateParse(input.fromDate))

NotifyLeaveId(input) ==
    getLeaveId(input.applicantId, DateParse(input.fromDate),
               DateParse(input.toDate))

\* a REQUEST case without the token check
MissingTaskToken_Never(taskToken) == FALSE

\* !event["task_token"]
MissingTaskToken(taskToken) == ~Truthy(taskToken)

\* !resp?.Items || !resp.Items?.length
NoAdminsFound(adminItems) == Len(adminItems) = 0

\* the switch on type.toUpperCase()
NotifySwitch(input, taskToken, adminItems) ==
    LET leaveId == NotifyLeaveId(input)
        type == ToUpperCase(input.type)
    IN  CASE type = "REQUEST" ->
               IF MissingTaskToken(taskToken)
               THEN NotifyPlan("MissingTaskToken", NoMail, NoCommand)
               ELSE IF NoAdminsFound(adminItems)
               THEN NotifyPlan("NoAdminsFound", NoMail, NoCommand)
               ELSE NotifyPlan("none",
                        [subject |-> "New Leave Application Submitted",
                         recipients |-> AdminEmails(adminItems, input.applicantId),
                         acceptUrl |-> ActionUrl("accept", leaveId),
                         rejectUrl |-> ActionUrl("reject", leaveId)],
                        [op |-> "SET task_token", key |-> leaveId,
                         value |-> taskToken])
          [] type = "ACCEPT" ->
               NotifyPlan("none",
                   [subject |-> "Leave Application Accepted",
                    recipients |-> <<input.applicantId>>,
                    acceptUrl |-> "", rejectUrl |-> ""],
                   [op |-> "REMOVE task_token SET status", key |-> leaveId,
                    value |-> "ACCEPTED"])
          [] type = "REJECT" ->
               NotifyPlan("none",
                   [subject |-> "Leave Application Rejected",
                    recipients |-> <<input.applicantId>>,
                    acceptUrl |-> "", rejectUrl |-> ""],
                   [op |-> "REMOVE task_token SET status", key |-> leaveId,
                    value |-> "REJECTED"])
          [] OTHER -> NotifyPlan("InvalidEvent", NoMail, NoCommand)

\* the handler up to its update: validation, then the switch
NotifyHandle(input, taskToken, adminItems) ==
    IF ~Truthy(Attr(input, "type"))
    THEN NotifyPlan("InvalidEvent", NoMail, NoCommand)
    ELSE IF \/ ~Truthy(Attr(input, "applicantId"))
            \/ ~Truthy(Attr(input, "applicantName"))
            \/ ~Truthy(Attr(input, "fromDate"))
            \/ ~Truthy(Attr(input, "toDate"))
    THEN NotifyPlan("InvalidEvent", NoMail, NoCommand)
    ELSE NotifySwitch(input, taskToken, adminItems)

\* the administrators were looked up on the way to this plan
Queried(plan) ==
    plan.error = "NoAdminsFound" \/ plan.command.op = "SET task_token"

\* the NotificationResult message of the case that built the command
ResultMessage(command) ==
    IF command.op = "SET task_token" THEN "Admin notifications sent"
    ELSE IF command.value = "ACCEPTED" THEN "Applicant notified of acceptance"
    ELSE "Applicant notified of rejection"

\* what the handler returns with: a NotificationResult, or the error thrown
NotificationResult(success, message) ==
    [success |-> success, message |-> message, error |-> "none"]

Thrown(name) == [success |-> FALSE, message |-> "", error |-> name]

\* the services the handler calls: the role index, the mail transport and
\* the leave table
Collaborators == {"QueryCommand", "SendEmail", "UpdateCommand"}

\* the services leave_generate and resume_machine call: the leave table's
\* reads and puts, and the engine's start and task callbacks
HandlerServices == {"GetCommand", "PutCommand", "StartExecution", "SendTask"}

\* the name of the error a failing service call rejects with
ServiceError == "Error"

\* a catch block that passes every error on as it is
CatchName_Rethrow(name) == name

\* the catch block: the handler's own three errors are thrown again, any
\* other error is replaced by NotificationError
CatchName(name) ==
    IF name \in {"InvalidEvent", "MissingTaskToken", "NoAdminsFound"}
    THEN name
    ELSE "NotificationError"

\* a transport whose failures go unnoticed
TransportOutcomes_Swallowed(mail) == {TRUE}

\* the mail transport: it fails when the service is down, and an empty
\* ToAddresses list may be refused or taken
TransportOutcomes(mail) ==
    IF "SendEmail" \in faults THEN {FALSE}
    ELSE IF Len(mail.recipients) = 0 THEN {TRUE, FALSE} ELSE {TRUE}

\* docClient.send(updateLeaveCommand)
ApplyUpdate(t, command) ==
    IF command.op = "SET task_token"
    THEN SetTaskToken(t, command.key, command.value)
    ELSE RemoveTokenSetStatus(t, command.key, command.value)

(***************************************************************************)
(* The authorizer: the token of the Authorization header, the secret, the  *)
(* verification of the token and the policy returned.                      *)
(***************************************************************************)
RECURSIVE TrimLeft(_)
\* the string without its leading spaces
TrimLeft(str) ==
    IF Len(str) > 0 /\ SubSeq(str, 1, 1) = " "
    THEN TrimLeft(SubSeq(str, 2, Len(str)))
    ELSE str

RECURSIVE TrimRight(_)
\* the string without its trailing spaces
TrimRight(str) ==
    IF Len(str) > 0 /\ SubSeq(str, Len(str), Len(str)) = " "
    THEN TrimRight(SubSeq(str, 1, Len(str) - 1))
    ELSE str

\* String.prototype.trim
Trim(str) == TrimLeft(TrimRight(str))

\* str.replace(/^Bearer\s+/i, "")
StripBearer(str) ==
    IF /\ Len(str) >= 7
       /\ ToUpperCase(SubSeq(str, 1, 6)) = "BEARER"
       /\ SubSeq(str, 7, 7) = " "
    THEN TrimLeft(SubSeq(str, 7, Len(str)))
    ELSE str

\* headers["Authorization"] || headers["authorization"] || ""
AuthHeader(headers) ==
    IF Truthy(Attr(headers, "Authorization")) THEN headers["Authorization"]
    ELSE IF Truthy(Attr(headers, "authorization"))
    THEN headers["authorization"]
    ELSE ""

\* a token taken from the header as it is
HeaderToken_Raw(headers) == AuthHeader(headers)

HeaderToken(headers) == Trim(StripBearer(AuthHeader(headers)))

\* what JSON.parse failed on
ParseError == [thrown |-> "SyntaxError"]

\* JSON.parse(secretResponse.SecretString || "{}") on the secret strings of
\* the model
ParseSecret(secretString) ==
    IF ~Truthy(secretString) \/ secretString = "{}" THEN <<>>
    ELSE IF secretString = "{\"JWT_SECRET\":\"\"}"
    THEN [JWT_SECRET |-> ""]
    ELSE IF secretString = "{\"JWT_SECRET\":\"s3cret\"}"
    THEN [JWT_SECRET |-> "s3cret"]
    ELSE IF secretString = "{\"JWT_SECRET\":\"other\"}"
    THEN [JWT_SECRET |-> "other"]
    ELSE ParseError

\* const { JWT_SECRET = "" } = ...
JwtSecret(parsed) ==
    IF "JWT_SECRET" \in DOMAIN parsed THEN parsed["JWT_SECRET"] ELSE ""

NotVerified == [thrown |-> "JsonWebTokenError"]

\* jwt.verify(token, secret) on the tokens of the model: two tokens signed
\* with s3cret, one with both claims and one with none; any other token or
\* secret fails
JwtVerify(token, secret) ==
    IF secret # "s3cret" THEN NotVerified
    ELSE IF token = "full.jwt"
    THEN [email |-> "amy@corp", username |-> "Amy"]
    ELSE IF token = "anon.jwt" THEN <<>>
    ELSE NotVerified

\* the policy of the catch block
DenyPolicy(methodArn) ==
    [principalId |-> "user", Effect |-> "Deny",
     Action |-> "execute-api:Invoke", Resource |-> methodArn]

\* decoded.email || "", decoded.username || ""
AllowPolicy(methodArn, decoded) ==
    [principalId |-> "user", Effect |-> "Allow",
     Action |-> "execute-api:Invoke", Resource |-> methodArn,
     context |->
        [userId |-> IF Truthy(Attr(decoded, "email"))
                    THEN decoded.email ELSE "",
         userName |-> IF Truthy(Attr(decoded, "username"))
                      THEN decoded.username ELSE ""]]

\* the handler: any throw ends in the catch block
Authorize(event, secretResponse) ==
    LET token == HeaderToken(event.headers)
    IN  IF ~Truthy(token) THEN DenyPolicy(event.methodArn)
        ELSE IF secretResponse.rejected THEN DenyPolicy(event.methodArn)
        ELSE LET parsed == ParseSecret(secretResponse.SecretString)
             IN  IF parsed = ParseError THEN DenyPolicy(event.methodArn)
                 ELSE IF ~Truthy(JwtSecret(parsed))
                 THEN DenyPolicy(event.methodArn)
                 ELSE LET decoded == JwtVerify(token, JwtSecret(parsed))
                      IN  IF decoded = NotVerified
                          THEN DenyPolicy(event.methodArn)
                          ELSE AllowPolicy(event.methodArn, decoded)

(***************************************************************************)
(* resume_machine: the action segment of the path and the engine call.     *)
(***************************************************************************)
\* path.split("/")[path.split("/").length - 2]
PathAction(path) ==
    LET ps == SepPositions(path, "/")
    IN  IF ps = {} THEN Undefined
        ELSE LET last == CHOOSE p \in ps : \A q \in ps : q <= p
                 before == {p \in ps : p < last}
                 prev == IF before = {} THEN 0
                         ELSE CHOOSE p \in before : \A q \in before : q <= p
             IN  SubSeq(path, prev + 1, last - 1)

\* the output of the SendTaskSuccessCommand
DecisionOutput(type, leaveItem) ==
    [type |-> type,
     applicantId |-> Attr(leaveItem, "applicantId"),
     applicantName |-> Attr(leaveItem, "applicantName"),
     fromDate |-> Attr(leaveItem, "fromDate"),
     toDate |-> Attr(leaveItem, "toDate")]

\* a dispatch on the action that knows accept only
ResumeCommand_AcceptOnly(action, leaveItem) ==
    IF action = "accept"
    THEN [op |-> "SendTaskSuccess", taskToken |-> Attr(leaveItem, "task_token"),
          output |-> DecisionOutput("ACCEPT", leaveItem)]
    ELSE [op |-> "SendTaskFailure", taskToken |-> Attr(leaveItem, "task_token"),
          output |-> [error |-> "InvalidAction"]]

\* the command resume_machine sends for the action
ResumeCommand(action, leaveItem) ==
    IF action = "reject"
    THEN [op |-> "SendTaskSuccess", taskToken |-> Attr(leaveItem, "task_token"),
          output |-> DecisionOutput("REJECT", leaveItem)]
    ELSE IF action = "accept"
    THEN [op |-> "SendTaskSuccess", taskToken |-> Attr(leaveItem, "task_token"),
          output |-> DecisionOutput("ACCEPT", leaveItem)]
    ELSE [op |-> "SendTaskFailure", taskToken |-> Attr(leaveItem, "task_token"),
          output |-> [error |-> "InvalidAction"]]

\* the key of resume_machine's GetCommand for the leaveId path parameter
ResumeKey(leaveId) == leaveId

\* a read that takes every answer for an item
LeaveMissing_Never(leaveItem) == FALSE

\* !leaveData.Item
LeaveMissing(leaveItem) == leaveItem = NoItem

\* a status check written against the labels of the Leave type
AlreadyProcessed_Approved(leaveItem) ==
    Attr(leaveItem, "status") \in {"APPROVED", "REJECTED"}

\* the check on the item read: a status other than PENDING ends the request
AlreadyProcessed(leaveItem) == Attr(leaveItem, "status") # "PENDING"

\* the last segment of a path
LastSegment(path) ==
    LET ps == SepPositions(path, "/")
        last == IF ps = {} THEN 0 ELSE CHOOSE p \in ps : \A q \in ps : q <= p
    IN  SubSeq(path, last + 1, Len(path))

\* the path of an action URL
PathOfUrl(url) == SubSeq(url, Len(ApiBaseUrl) + 1, Len(url))

Actions == {"accept", "reject", "cancel"}

\* the events resume_machine is invoked with: an action link of a message
\* that was sent, a path built on a stored key, or no path parameters
ResolveEvents(box, t) ==
    {[path |-> PathOfUrl(url), leaveId |-> LastSegment(PathOfUrl(url))] :
        url \in ({box[i].acceptUrl : i \in 1..Len(box)}
                 \cup {box[i].rejectUrl : i \in 1..Len(box)}) \ {""}}
    \cup {[path |-> "/leave/" \o a \o "/" \o k, leaveId |-> k] :
             a \in Actions, k \in DOMAIN t}
    \cup {[path |-> "/leave/accept/", leaveId |-> Undefined]}

(***************************************************************************)
(* The durable-execution engine: an execution is started with an input,    *)
(* invokes notify_users with the REQUEST event and a task token and waits  *)
(* for the token's callback; a success callback resumes it with the output *)
(* as the next event, a failure callback fails it.  A token is accepted    *)
(* once, while its execution waits.                                        *)
(***************************************************************************)
TaskToken(n) == "token-" \o ToString(n)

EngineStart(es, input) ==
    Append(es, [state |-> "STARTED", token |-> TaskToken(Len(es) + 1),
                input |-> input, output |-> <<>>])

EngineWaiting(es, token) ==
    {i \in 1..Len(es) : es[i].token = token /\ es[i].state = "AWAITING"}

EngineAccepts(es, token) == EngineWaiting(es, token) # {}

\* a callback the engine accepts resumes or fails the waiting execution;
\* any other callback is refused and changes nothing
EngineCallback(es, command) ==
    [i \in 1..Len(es) |->
        IF i \notin EngineWaiting(es, command.taskToken) THEN es[i]
        ELSE IF command.op = "SendTaskSuccess"
        THEN [es[i] EXCEPT !.state = "RESUMED", !.output = command.output]
        ELSE [es[i] EXCEPT !.state = "FAILED"]]

(***************************************************************************)
(* Invocations.                                                            *)
(***************************************************************************)
SubmitProcs == 1..MaxSubmits

ResolveProcs == 1..MaxResolves

NoEvent == [none |-> ""]

Call(op, target, detail, result) ==
    [op |-> op, target |-> target, detail |-> detail, result |-> result]

IdleInvocation ==
    [pc |-> "idle", event |-> NoEvent, item |-> NoItem, calls |-> <<>>]

\* a notify_users invocation that is not running
IdleNotify == [pc |-> "idle", command |-> NoCommand, event |-> NoEvent,
               calls |-> <<>>]

\* what an invocation returns with: the handler, the event it was invoked
\* with (none when the event was turned down unread), its response and the
\* calls it made to the store and the engine
Return(fn, event, resp, calls) ==
    [fn |-> fn, event |-> event, resp |-> resp, calls |-> calls]

NoReturn == Return("none", NoEvent, NoResponse, <<>>)

\* no function is applied on its own
NoApplication == [fn |-> "none"]

\* a new invocation takes the first idle position
FirstIdle(invs, p) ==
    /\ invs[p].pc = "idle"
    /\ \A q \in DOMAIN invs : q < p => invs[q].pc # "idle"

Init ==
    /\ table = <<>>
    /\ execs = <<>>
    /\ ntf = <<>>
    /\ outbox = <<>>
    /\ sub = [p \in SubmitProcs |-> IdleInvocation]
    /\ res = [p \in ResolveProcs |-> IdleInvocation]
    /\ returned = NoReturn
    /\ ticks = 0
    /\ admins = Admins
    /\ faults = {}
    /\ pure = NoApplication

Tick ==
    /\ ticks < MaxTicks
    /\ ticks' = ticks + 1
    /\ returned' = NoReturn
    /\ UNCHANGED <<table, execs, ntf, outbox, sub, res, admins, faults, pure>>

(***************************************************************************)
(* leave_generate                                                          *)
(***************************************************************************)
\* the invocations that may still start an execution
SubmitsInProgress == Cardinality({p \in SubmitProcs : sub[p].pc # "idle"})

\* lines 16-54: the checks; a valid request goes on to the pre-check read
SubmitBegin(p) ==
    /\ FirstIdle(sub, p)
    /\ Len(execs) + SubmitsInProgress < MaxExecs
    /\ \E event \in SubmitEvents :
          LET early == ValidateSubmit(event, now)
          IN  IF early # NoResponse
              THEN /\ returned' = Return("leave_generate", NoEvent, early, <<>>)
                   /\ sub' = sub
              ELSE /\ sub' = [sub EXCEPT ![p] =
                                [@ EXCEPT !.pc = "get", !.event = event]]
                   /\ returned' = NoReturn
    /\ UNCHANGED <<table, execs, ntf, outbox, res, ticks, admins, faults, pure>>

\* lines 56-78: the pre-check read, then the Leave is built
SubmitGet(p) ==
    /\ sub[p].pc = "get"
    /\ LET key == ExistingLeaveKey(sub[p].event)
           existingLeave == GetItem(table, key)
           called == Append(sub[p].calls,
                        Call("GetCommand", key,
                             Attr(existingLeave, "status"),
                             IF existingLeave = NoItem THEN "empty" ELSE "item"))
       IN  IF "GetCommand" \in faults
           THEN /\ returned' = Return("leave_generate", sub[p].event,
                        ResponseObj(500, "Internal server error"),
                        Append(sub[p].calls,
                               Call("GetCommand", key, "", "error")))
                /\ sub' = [sub EXCEPT ![p] = IdleInvocation]
           ELSE IF ExistingIsPending(existingLeave)
           THEN /\ returned' = Return("leave_generate", sub[p].event,
                        ResponseObj(409,
                          "There is already a leave application for the given dates"),
                        called)
                /\ sub' = [sub EXCEPT ![p] = IdleInvocation]
           ELSE /\ sub' = [sub EXCEPT ![p] =
                             [@ EXCEPT !.pc = "put", !.calls = called,
                                       !.item = LeaveOfEvent(sub[p].event, now)]]
                /\ returned' = NoReturn
    /\ UNCHANGED <<table, execs, ntf, outbox, res, ticks, admins, faults, pure>>

\* a put whose failure is not noticed: the invocation goes on to the start
SubmitPut_Unchecked(p) ==
    /\ sub[p].pc = "put"
    /\ LET leaveObj == sub[p].item
           failed == "PutCommand" \in faults
       IN  /\ table' = IF failed THEN table
                       ELSE Assign(table, leaveObj.leaveId, leaveObj)
           /\ sub' = [sub EXCEPT ![p] =
                        [@ EXCEPT !.pc = "start",
                                  !.calls = Append(@,
                                     Call("PutCommand", leaveObj.leaveId, "",
                                          IF failed THEN "error" ELSE "ok"))]]
           /\ returned' = NoReturn
    /\ UNCHANGED <<execs, ntf, outbox, res, ticks, admins, faults, pure>>

\* lines 80-93: the conditional put; a failed condition is thrown and caught
SubmitPut(p) ==
    /\ sub[p].pc = "put"
    /\ LET leaveObj == sub[p].item
       IN  IF "PutCommand" \in faults
           THEN /\ table' = table
                /\ returned' = Return("leave_generate", sub[p].event,
                        ResponseObj(500, "Internal server error"),
                        Append(sub[p].calls,
                               Call("PutCommand", leaveObj.leaveId, "",
                                    "error")))
                /\ sub' = [sub EXCEPT ![p] = IdleInvocation]
           ELSE IF PutConditionHolds(table, leaveObj)
           THEN /\ table' = Assign(table, leaveObj.leaveId, leaveObj)
                /\ sub' = [sub EXCEPT ![p] =
                             [@ EXCEPT !.pc = "start",
                                       !.calls = Append(@,
                                          Call("PutCommand", leaveObj.leaveId,
                                               "", "ok"))]]
                /\ returned' = NoReturn
           ELSE /\ table' = table
                /\ returned' = Return("leave_generate", sub[p].event,
                        ResponseObj(500, "Internal server error"),
                        Append(sub[p].calls,
                               Call("PutCommand", leaveObj.leaveId, "",
                                    "ConditionalCheckFailed")))
                /\ sub' = [sub EXCEPT ![p] = IdleInvocation]
    /\ UNCHANGED <<execs, ntf, outbox, res, ticks, admins, faults, pure>>

\* lines 95-113: the execution is started, the request answered
SubmitStart(p) ==
    /\ sub[p].pc = "start"
    /\ LET leaveObj == sub[p].item
           input == StartInput(sub[p].event, leaveObj)
       IN  IF "StartExecution" \in faults
           THEN /\ returned' = Return("leave_generate", sub[p].event,
                        ResponseObj(500, "Internal server error"),
                        Append(sub[p].calls,
                               Call("StartExecution", leaveObj.leaveId, "",
                                    "error")))
                /\ sub' = [sub EXCEPT ![p] = IdleInvocation]
                /\ UNCHANGED <<execs, ntf>>
           ELSE /\ execs' = EngineStart(execs, input)
                /\ ntf' = Append(ntf, IdleNotify)
                /\ returned' = Return("leave_generate", sub[p].event,
                        ResponseObj(201, "Leave application submitted"),
                        Append(sub[p].calls,
                               Call("StartExecution", leaveObj.leaveId,
                                    TaskToken(Len(execs) + 1), "ok")))
                /\ sub' = [sub EXCEPT ![p] = IdleInvocation]
    /\ UNCHANGED <<table, outbox, res, ticks, admins, faults, pure>>

(***************************************************************************)
(* resume_machine                                                          *)
(***************************************************************************)
\* lines 138-149: the path parameter
ResolveBegin(p) ==
    /\ FirstIdle(res, p)
    /\ \E event \in ResolveEvents(outbox, table) :
          IF ~Truthy(event.leaveId)
          THEN /\ returned' = Return("resume_machine", event,
                       ErrorResponse("Missing leaveId in path parameters"),
                       <<>>)
               /\ res' = res
          ELSE /\ res' = [res EXCEPT ![p] =
                            [@ EXCEPT !.pc = "get", !.event = event]]
               /\ returned' = NoReturn
    /\ UNCHANGED <<table, execs, ntf, outbox, sub, ticks, admins, faults, pure>>

\* lines 151-163: the read and the status check
ResolveGet(p) ==
    /\ res[p].pc = "get"
    /\ LET key == ResumeKey(res[p].event.leaveId)
           leaveItem == GetItem(table, key)
           called == Append(res[p].calls,
                        Call("GetCommand", key, Attr(leaveItem, "status"),
                             IF leaveItem = NoItem THEN "empty" ELSE "item"))
       IN  IF "GetCommand" \in faults
           THEN /\ returned' = Return("resume_machine", res[p].event,
                       ErrorResponse(ServiceError),
                       Append(res[p].calls,
                              Call("GetCommand", key, "", "error")))
                /\ res' = [res EXCEPT ![p] = IdleInvocation]
           ELSE IF LeaveMissing(leaveItem)
           THEN /\ returned' = Return("resume_machine", res[p].event,
                       ErrorResponse("Leave with ID " \o res[p].event.leaveId
                                       \o " not found"),
                       called)
                /\ res' = [res EXCEPT ![p] = IdleInvocation]
           ELSE IF AlreadyProcessed(leaveItem)
           THEN /\ returned' = Return("resume_machine", res[p].event,
                       ResponseObj(400,
                           ProcessedMessage(res[p].event.leaveId,
                                            Attr(leaveItem, "status"))),
                       called)
                /\ res' = [res EXCEPT ![p] = IdleInvocation]
           ELSE /\ res' = [res EXCEPT ![p] =
                             [@ EXCEPT !.pc = "signal", !.calls = called,
                                       !.item = leaveItem]]
                /\ returned' = NoReturn
    /\ UNCHANGED <<table, execs, ntf, outbox, sub, ticks, admins, faults, pure>>

\* a callback whose failure is swallowed: the handler answers as if the
\* engine had taken the call
ResolveSignal_Swallowed(p) ==
    /\ res[p].pc = "signal"
    /\ LET action == PathAction(res[p].event.path)
           command == ResumeCommand(action, res[p].item)
           up == "SendTask" \notin faults
           accepted == up /\ EngineAccepts(execs, command.taskToken)
           called == Append(res[p].calls,
                        Call(command.op, command.taskToken, command.output,
                             IF accepted THEN "ok" ELSE "error"))
       IN  /\ execs' = IF up THEN EngineCallback(execs, command) ELSE execs
           /\ returned' = Return("resume_machine", res[p].event,
                   IF command.op = "SendTaskSuccess"
                   THEN ResponseObj(200, "Leave " \o action \o "ed successfully")
                   ELSE ResponseObj(400, "Invalid action: " \o action
                                          \o ". Expected ACCEPT or REJECT."),
                   called)
           /\ res' = [res EXCEPT ![p] = IdleInvocation]
    /\ UNCHANGED <<table, ntf, outbox, sub, ticks, admins, faults, pure>>

\* lines 165-209: the callback for the action
ResolveSignal(p) ==
    /\ res[p].pc = "signal"
    /\ LET action == PathAction(res[p].event.path)
           command == ResumeCommand(action, res[p].item)
           up == "SendTask" \notin faults
           accepted == up /\ EngineAccepts(execs, command.taskToken)
           called == Append(res[p].calls,
                        Call(command.op, command.taskToken, command.output,
                             IF accepted THEN "ok" ELSE "error"))
       IN  /\ execs' = IF up THEN EngineCallback(execs, command) ELSE execs
           /\ returned' = Return("resume_machine", res[p].event,
                   IF ~up THEN ErrorResponse(ServiceError)
                   ELSE IF ~accepted
                   THEN ErrorResponse("callback refused")
                   ELSE IF command.op = "SendTaskSuccess"
                   THEN ResponseObj(200, "Leave " \o action \o "ed successfully")
                   ELSE ResponseObj(400, "Invalid action: " \o action
                                          \o ". Expected ACCEPT or REJECT."),
                   called)
           /\ res' = [res EXCEPT ![p] = IdleInvocation]
    /\ UNCHANGED <<table, ntf, outbox, sub, ticks, admins, faults, pure>>

(***************************************************************************)
(* notify_users, invoked by the engine                                     *)
(***************************************************************************)
\* the event of the execution's next invocation
NotifyEvent(exec) ==
    IF exec.state = "STARTED"
    THEN [input |-> exec.input, task_token |-> exec.token]
    ELSE [input |-> exec.output, task_token |-> Undefined]

\* the calls of the handler up to the message: the lookup, then the send
NotifyCalls(plan, accepted) ==
    (IF Queried(plan) THEN <<Call("QueryCommand", "ADMIN", "", "ok")>>
     ELSE <<>>)
    \o (IF plan.error = "none"
        THEN <<Call("SendEmail", plan.mail.recipients, plan.mail.subject,
                    IF accepted THEN "ok" ELSE "error")>>
        ELSE <<>>)

\* lines 40-203, 229-235, 264-270: validation, audience, the message; a
\* throw ends the invocation and fails the execution's task
NotifySend(e) ==
    /\ e \in 1..Len(execs)
    /\ execs[e].state \in {"STARTED", "RESUMED"}
    /\ LET event == NotifyEvent(execs[e])
           plan == NotifyHandle(event.input, event.task_token, admins)
           next == IF execs[e].state = "STARTED" THEN "AWAITING" ELSE "RESOLVING"
       IN  IF Queried(plan) /\ "QueryCommand" \in faults
           THEN /\ execs' = [execs EXCEPT ![e].state = "FAILED"]
                /\ returned' = Return("notify_users", event,
                                      Thrown(CatchName(ServiceError)),
                                      <<Call("QueryCommand", "ADMIN", "",
                                             "error")>>)
                /\ UNCHANGED <<ntf, outbox>>
           ELSE IF plan.error # "none"
           THEN /\ execs' = [execs EXCEPT ![e].state = "FAILED"]
                /\ returned' = Return("notify_users", event,
                                      Thrown(CatchName(plan.error)),
                                      NotifyCalls(plan, FALSE))
                /\ UNCHANGED <<ntf, outbox>>
           ELSE \E accepted \in TransportOutcomes(plan.mail) :
                  IF accepted
                  THEN /\ execs' = [execs EXCEPT ![e].state = next]
                       /\ outbox' = Append(outbox, plan.mail)
                       /\ ntf' = [ntf EXCEPT ![e] =
                                    [pc |-> "update", command |-> plan.command,
                                     event |-> event,
                                     calls |-> NotifyCalls(plan, TRUE)]]
                       /\ returned' = NoReturn
                  ELSE /\ execs' = [execs EXCEPT ![e].state = "FAILED"]
                       /\ returned' = Return("notify_users", event,
                                             Thrown(CatchName(ServiceError)),
                                             NotifyCalls(plan, FALSE))
                       /\ UNCHANGED <<ntf, outbox>>
    /\ UNCHANGED <<table, sub, res, ticks, admins, faults, pure>>

\* lines 303-306: the update, then the result; an update that fails is
\* caught like any other error
NotifyUpdate(e) ==
    /\ e \in 1..Len(execs)
    /\ ntf[e].pc = "update"
    /\ IF "UpdateCommand" \in faults
       THEN /\ returned' = Return("notify_users", ntf[e].event,
                                  Thrown(CatchName(ServiceError)),
                                  Append(ntf[e].calls,
                                         Call("UpdateCommand", ntf[e].command.key,
                                              ntf[e].command.value, "error")))
            /\ execs' = [execs EXCEPT ![e].state = "FAILED"]
            /\ UNCHANGED table
       ELSE /\ table' = ApplyUpdate(table, ntf[e].command)
            /\ returned' = Return("notify_users", ntf[e].event,
                                  NotificationResult(TRUE,
                                      ResultMessage(ntf[e].command)),
                                  Append(ntf[e].calls,
                                         Call("UpdateCommand", ntf[e].command.key,
                                              ntf[e].command.value, "ok")))
            /\ execs' = [execs EXCEPT ![e].state =
                            IF @ = "RESOLVING" THEN "RESOLVED" ELSE @]
    /\ ntf' = [ntf EXCEPT ![e] = IdleNotify]
    /\ UNCHANGED <<outbox, sub, res, ticks, admins, faults, pure>>

Next ==
    \/ Tick
    \/ \E p \in SubmitProcs : SubmitBegin(p)
    \/ \E p \in SubmitProcs : SubmitGet(p)
    \/ \E p \in SubmitProcs : SubmitPut(p)
    \/ \E p \in SubmitProcs : SubmitStart(p)
    \/ \E p \in ResolveProcs : ResolveBegin(p)
    \/ \E p \in ResolveProcs : ResolveGet(p)
    \/ \E p \in ResolveProcs : ResolveSignal(p)
    \/ \E e \in 1..MaxExecs : NotifySend(e)
    \/ \E e \in 1..MaxExecs : NotifyUpdate(e)

Spec == Init /\ [][Next]_vars

(***************************************************************************)
(* The saga with one of the services of leave_generate and resume_machine  *)
(* down: its calls are rejected with an error.                             *)
(***************************************************************************)
InitOutage ==
    /\ table = <<>>
    /\ execs = <<>>
    /\ ntf = <<>>
    /\ outbox = <<>>
    /\ sub = [p \in SubmitProcs |-> IdleInvocation]
    /\ res = [p \in ResolveProcs |-> IdleInvocation]
    /\ returned = NoReturn
    /\ ticks = 0
    /\ admins = Admins
    /\ \E service \in HandlerServices : faults = {service}
    /\ pure = NoApplication

SpecOutage == InitOutage /\ [][Next]_vars

(***************************************************************************)
(* notify_users on its own: one invocation with any event, against any     *)
(* administrator directory and a leave table that holds no record or the   *)
(* record of one request in any of its states.  The event is delivered by  *)
(* the task of an execution, which carries the input and the task token.   *)
(***************************************************************************)
EventTypes ==
    {Undefined, "REQUEST", "request", "ReQuEsT", "ACCEPT", "accept",
     "REJECT", "ReJeCt", "INVALID_TYPE"}

NotifyInputs ==
    [type : EventTypes,
     applicantId : Accounts \cup {Undefined},
     applicantName : {NameOf(a) : a \in Accounts} \cup {Undefined},
     fromDate : {ToISOString(3000), Undefined},
     toDate : {ToISOString(3000), ToISOString(7000), Undefined}]

\* event["task_token"]: given, or absent
EventTokens == {TaskToken(1), Undefined}

\* what the role index may hold
AdminDirectories ==
    {<<>>, <<"amy@corp">>, <<"root@corp">>, <<"amy@corp", "root@corp">>}

\* the record leave_generate stores for the one request of these tables
StoredLeave ==
    Leave([fromDate |-> ToISOString(3000), toDate |-> ToISOString(3000),
           reason |-> "", applicantId |-> "amy@corp",
           applicantName |-> NameOf("amy@corp")], Clock(0))

\* no record; the record as stored; with a token attached; decided
LeaveTables ==
    {<<>>,
     Assign(<<>>, StoredLeave.leaveId, StoredLeave),
     SetTaskToken(Assign(<<>>, StoredLeave.leaveId, StoredLeave),
                  StoredLeave.leaveId, TaskToken(0))}
    \cup {RemoveTokenSetStatus(Assign(<<>>, StoredLeave.leaveId, StoredLeave),
                               StoredLeave.leaveId, status) :
             status \in {"ACCEPTED", "REJECTED"}}

\* one invocation about to start, whatever the services do
NotifySetup ==
    /\ table \in LeaveTables
    /\ admins \in AdminDirectories
    /\ \E input \in NotifyInputs, token \in EventTokens :
          execs = <<[state |-> "STARTED", token |-> token, input |-> input,
                     output |-> <<>>]>>
    /\ ntf = <<IdleNotify>>
    /\ outbox = <<>>
    /\ sub = [p \in SubmitProcs |-> IdleInvocation]
    /\ res = [p \in ResolveProcs |-> IdleInvocation]
    /\ returned = NoReturn
    /\ ticks = 0
    /\ pure = NoApplication

InitNotify == NotifySetup /\ faults = {}

NextNotify ==
    \/ \E e \in 1..MaxExecs : NotifySend(e)
    \/ \E e \in 1..MaxExecs : NotifyUpdate(e)

SpecNotify == InitNotify /\ [][NextNotify]_vars

(***************************************************************************)
(* notify_users with services that may be down: the same invocation, with  *)
(* any set of the services it calls failing.                               *)
(***************************************************************************)
InitNotifyFaults == NotifySetup /\ faults \in SUBSET Collaborators

SpecNotifyFaults == InitNotifyFaults /\ [][NextNotify]_vars

(***************************************************************************)
(* validateDateInputs on its own: any dates and times, at any of three     *)
(* clock readings.                                                         *)
(***************************************************************************)
TimeInputs == {Undefined, "06:00", "18:00", "25:00", "invalid"}

ValidatorClocks == {2000, 3500, 7500}

ValidatorInputs ==
    [from : RawDates, to : RawDates, fromTime : TimeInputs,
     toTime : TimeInputs, clock : ValidatorClocks]

InitValidate ==
    /\ \E args \in ValidatorInputs :
          pure = [fn |-> "validateDateInputs", args |-> args, done |-> FALSE,
                  result |-> ValidResult]
    /\ table = <<>>
    /\ execs = <<>>
    /\ ntf = <<>>
    /\ outbox = <<>>
    /\ sub = [p \in SubmitProcs |-> IdleInvocation]
    /\ res = [p \in ResolveProcs |-> IdleInvocation]
    /\ returned = NoReturn
    /\ ticks = 0
    /\ admins = Admins
    /\ faults = {}

Validate ==
    /\ pure.fn = "validateDateInputs"
    /\ ~pure.done
    /\ pure' = [pure EXCEPT
                  !.done = TRUE,
                  !.result = validateDateInputs(pure.args.from, pure.args.to,
                                 pure.args.fromTime, pure.args.toTime,
                                 pure.args.clock)]
    /\ UNCHANGED <<table, execs, ntf, outbox, sub, res, returned, ticks,
                   admins, faults>>

NextValidate == Validate

SpecValidate == InitValidate /\ [][NextValidate]_vars

(***************************************************************************)
(* The identity and the interval leave_generate derives, on its own: two   *)
(* request bodies of one applicant with valid dates, with or without times *)
(* of day.                                                                 *)
(***************************************************************************)
TimedBodies ==
    {body \in [from : {"2026-12-01", "2026-12-05"},
               to : {"2026-12-01", "2026-12-05"},
               fromTime : {Undefined, "06:00", "18:00"},
               toTime : {Undefined, "06:00", "18:00"}] :
        DateParse(body.from) <= DateParse(body.to)}

\* the event of a body: lines 16-27, body parsed, identity from the authorizer
TimedEvent(body) ==
    [bodyKind |-> "json", from |-> body.from, to |-> body.to,
     fromTime |-> body.fromTime, toTime |-> body.toTime, reason |-> "",
     userId |-> "amy@corp", userName |-> NameOf("amy@corp")]

\* lines 56-78, 97-108: the key of the pre-check, the Leave that is stored
\* and the timeout of the execution's input
DerivedLeave(body) ==
    LET event == TimedEvent(body)
        leaveObj == LeaveOfEvent(event, Clock(0))
    IN  [key |-> ExistingLeaveKey(event), leaveId |-> leaveObj.leaveId,
         fromDate |-> leaveObj.fromDate, toDate |-> leaveObj.toDate,
         timeout |-> StartInput(event, leaveObj).timeoutSecondsForRequest]

InitIdentity ==
    /\ \E a \in TimedBodies, b \in TimedBodies :
          pure = [fn |-> "getLeaveId", args |-> <<a, b>>, done |-> FALSE,
                  result |-> <<>>]
    /\ table = <<>>
    /\ execs = <<>>
    /\ ntf = <<>>
    /\ outbox = <<>>
    /\ sub = [p \in SubmitProcs |-> IdleInvocation]
    /\ res = [p \in ResolveProcs |-> IdleInvocation]
    /\ returned = NoReturn
    /\ ticks = 0
    /\ admins = Admins
    /\ faults = {}

DeriveIdentity ==
    /\ pure.fn = "getLeaveId"
    /\ ~pure.done
    /\ pure' = [pure EXCEPT
                  !.done = TRUE,
                  !.result = <<DerivedLeave(pure.args[1]),
                               DerivedLeave(pure.args[2])>>]
    /\ UNCHANGED <<table, execs, ntf, outbox, sub, res, returned, ticks,
                   admins, faults>>

NextIdentity == DeriveIdentity

SpecIdentity == InitIdentity /\ [][NextIdentity]_vars

(***************************************************************************)
(* The authorizer on its own: any headers, any answer of the secrets       *)
(* manager.                                                                *)
(***************************************************************************)
HeaderValues ==
    {"", "Bearer full.jwt", "bearer   anon.jwt ", "Bearer forged.jwt",
     "Bearer ", "Bearer", "full.jwt"}

AuthorizerEvents ==
    {[headers |-> h, methodArn |-> "arn:api"] :
        h \in {<<>>} \cup {[Authorization |-> v] : v \in HeaderValues}
                     \cup {[authorization |-> v] : v \in HeaderValues}}

\* the call is rejected, or answers with or without a SecretString
SecretResponses ==
    {[rejected |-> TRUE, SecretString |-> Undefined]}
    \cup {[rejected |-> FALSE, SecretString |-> str] :
            str \in {Undefined, "{}", "{\"JWT_SECRET\":\"\"}",
                     "{\"JWT_SECRET\":\"s3cret\"}",
                     "{\"JWT_SECRET\":\"other\"}", "no json"}}

InitAuthorizer ==
    /\ \E event \in AuthorizerEvents, secret \in SecretResponses :
          pure = [fn |-> "authorizer",
                  args |-> [event |-> event, secret |-> secret],
                  done |-> FALSE, result |-> <<>>]
    /\ table = <<>>
    /\ execs = <<>>
    /\ ntf = <<>>
    /\ outbox = <<>>
    /\ sub = [p \in SubmitProcs |-> IdleInvocation]
    /\ res = [p \in ResolveProcs |-> IdleInvocation]
    /\ returned = NoReturn
    /\ ticks = 0
    /\ admins = Admins
    /\ faults = {}

AuthorizerRun ==
    /\ pure.fn = "authorizer"
    /\ ~pure.done
    /\ pure' = [pure EXCEPT
                  !.done = TRUE,
                  !.result = Authorize(pure.args.event, pure.args.secret)]
    /\ UNCHANGED <<table, execs, ntf, outbox, sub, res, returned, ticks,
                   admins, faults>>

NextAuthorizer == AuthorizerRun

SpecAuthorizer == InitAuthorizer /\ [][NextAuthorizer]_vars

(***************************************************************************)
(* Properties.                                                             *)
(***************************************************************************)
TerminalStatuses == {"ACCEPTED", "REJECTED"}

EngineCalls == {"SendTaskSuccess", "SendTaskFailure"}

ResolveReturned == returned.fn = "resume_machine"

SubmitReturned == returned.fn = "leave_generate"

\* the invocation that returned read the store first, and this is the read
FirstRead == returned.calls[1]

HasRead == Len(returned.calls) >= 1 /\ FirstRead.op = "GetCommand"

\* the engine calls the invocation that returned made
SignalsMade ==
    {i \in DOMAIN returned.calls : returned.calls[i].op \in EngineCalls}

\* C1: once the stored status of a request is ACCEPTED or REJECTED, no
\* step of submit, resolve or the notification handler changes it: it is
\* not rewritten to the other terminal value and does not return to PENDING.
C1_StatusMonotonic ==
    [][\A k \in DOMAIN table :
          Attr(table[k], "status") \in TerminalStatuses =>
              Attr(GetItem(table', k), "status") = Attr(table[k], "status")]_vars

\* C2: of the decision calls made for one pending request at most one
\* signals the engine: once a decision has resumed the execution of a task
\* token, no further decision call reads PENDING and calls the engine with
\* that token (such a call is one the engine refuses).
C2_OneDecisionSignals ==
    \A e \in 1..Len(execs) :
        execs[e].state \in {"RESUMED", "RESOLVING", "RESOLVED"} =>
            ~(/\ ResolveReturned
              /\ \E i \in SignalsMade :
                    /\ returned.calls[i].op = "SendTaskSuccess"
                    /\ returned.calls[i].target = execs[e].token
                    /\ returned.calls[i].result = "error")

\* C3: when two submits of the same applicant and interval both find no
\* record in their pre-check read, at most one of them gets its record
\* created: they are never both past a successful create.
C3_OneSubmitCreates ==
    \A p, q \in SubmitProcs :
        (/\ p # q
         /\ sub[p].pc = "start" /\ sub[q].pc = "start"
         /\ sub[p].item.leaveId = sub[q].item.leaveId)
        => ~(sub[p].calls[1].result = "empty" /\ sub[q].calls[1].result = "empty")

\* C4: the create write of a submit whose identity is that of a stored
\* record, whatever its status, is rejected: the step leaves the table as
\* it is and the submit does not go on to start a saga.
C4_CreateRejectedWhenStored ==
    [][\A p \in SubmitProcs :
          (/\ sub[p].pc = "put"
           /\ sub'[p].pc # "put"
           /\ sub[p].item.leaveId \in DOMAIN table)
          => (table' = table /\ sub'[p].pc # "start")]_vars

\* C5: a submit whose pre-check read finds its record with status PENDING
\* answers 409 and has made no call but that read: no store write, no
\* engine start.
C5_PendingDuplicateConflict ==
    (SubmitReturned /\ HasRead /\ FirstRead.detail = "PENDING")
    => (returned.resp.statusCode = 409 /\ Len(returned.calls) = 1)

C5_Witness ==
    /\ SubmitReturned /\ HasRead /\ FirstRead.detail = "PENDING"
    /\ returned.resp.statusCode = 409
    /\ FirstRead.target \in DOMAIN table

\* C6: a resolve that reads a record whose status is not PENDING answers
\* 400 "already processed" with that status, whatever the action, and has
\* made no call but that read: no engine call, no store write.
C6_AlreadyProcessedNoEffect ==
    (ResolveReturned /\ HasRead /\ FirstRead.result = "item"
        /\ FirstRead.detail # "PENDING")
    => (/\ returned.resp =
              ResponseObj(400, ProcessedMessage(returned.event.leaveId,
                                                FirstRead.detail))
        /\ Len(returned.calls) = 1)

\* a reject decision on a record the accept transition completed
C6_Witness ==
    /\ ResolveReturned /\ HasRead /\ FirstRead.result = "item"
    /\ FirstRead.detail = "ACCEPTED"
    /\ PathAction(returned.event.path) = "reject"
    /\ returned.resp.statusCode = 400
    /\ \E e \in 1..Len(execs) : execs[e].state = "RESOLVED"

\* C7: the round trip: after submit and the REQUEST event, a resolve made
\* through the accept link of the notification, for a record that is
\* PENDING with the token of a waiting execution, succeeds (and so resumes
\* the saga towards ACCEPTED).
C7_RoundTripResolves ==
    \A k \in DOMAIN table :
        (/\ ResolveReturned
         /\ returned.event.leaveId = SplitHashSecond(k)
         /\ PathAction(returned.event.path) = "accept"
         /\ Attr(table[k], "status") = "PENDING"
         /\ EngineAccepts(execs, Attr(table[k], "task_token")))
        => returned.resp.statusCode = 200

\* C8: the identity segment of the action links, given as the leaveId path
\* parameter, makes the resolver read the store under the key of the
\* record submit created, so the record is found.
C8_SegmentFindsRecord ==
    \A k \in DOMAIN table :
        (ResolveReturned /\ HasRead
            /\ returned.event.leaveId = SplitHashSecond(k))
        => (FirstRead.target = k /\ FirstRead.result = "item")

\* C9: whenever a resolve signals the engine for a record, the record has
\* a continuation token and it is the token passed; in particular no
\* resolve signals the engine with an absent token.
C9_SignalCarriesStoredToken ==
    ResolveReturned =>
        \A i \in SignalsMade :
            /\ returned.calls[i].target # Undefined
            /\ returned.calls[i].target =
                   Attr(GetItem(table, FirstRead.target), "task_token")

\* C10: a stored record that carries a continuation token has status
\* PENDING.
C10_TokenOnlyWhenPending ==
    \A k \in DOMAIN table :
        "task_token" \in DOMAIN table[k] =>
            Attr(table[k], "status") = "PENDING"

(***************************************************************************)
(* Properties of notify_users.                                             *)
(***************************************************************************)
NotifyReturned == returned.fn = "notify_users"

RequestSpellings == {"REQUEST", "request", "ReQuEsT"}

AcceptSpellings == {"ACCEPT", "accept"}

RejectSpellings == {"REJECT", "ReJeCt"}

\* the four identity and interval fields of an event input are given
FieldsPresent(input) ==
    /\ Truthy(input.applicantId) /\ Truthy(input.applicantName)
    /\ Truthy(input.fromDate) /\ Truthy(input.toDate)

\* the administrator accounts other than the applicant
Audience(applicantId) == {admins[i] : i \in 1..Len(admins)} \ {applicantId}

\* the calls of one kind the invocation that returned made
CallsOf(op) == {i \in DOMAIN returned.calls : returned.calls[i].op = op}

\* the key of the record an event is about
EventKey(input) ==
    getLeaveId(input.applicantId, DateParse(input.fromDate),
               DateParse(input.toDate))

\* C11: a REQUEST event with a task token for which no administrator other
\* than the applicant exists fails with NoAdminsFound: no message is handed
\* to the mail transport and no update is sent to the store.
C11_EmptyAudienceFails ==
    (/\ NotifyReturned
     /\ returned.event.input.type \in RequestSpellings
     /\ FieldsPresent(returned.event.input)
     /\ Truthy(returned.event.task_token)
     /\ Audience(returned.event.input.applicantId) = {})
    => (/\ returned.resp.error = "NoAdminsFound"
        /\ CallsOf("SendEmail") = {}
        /\ CallsOf("UpdateCommand") = {})

\* C12: the recipients of the message that carries the accept and reject
\* links are the administrators the lookup returned without the applicant,
\* and the applicant is not one of them.
C12_ApplicantNotNotified ==
    \A i \in 1..Len(outbox) :
        outbox[i].acceptUrl # "" =>
            LET applicant == execs[1].input.applicantId
                to == outbox[i].recipients
            IN  /\ \A j \in 1..Len(to) : to[j] # applicant
                /\ {to[j] : j \in 1..Len(to)} = Audience(applicant)
                /\ Len(to) = Cardinality(Audience(applicant))

\* the applicant is an administrator and another administrator is notified
C12_Witness ==
    /\ admins = <<"amy@corp", "root@corp">>
    /\ Len(outbox) = 1
    /\ outbox[1].acceptUrl # ""
    /\ outbox[1].recipients = <<"root@corp">>
    /\ execs[1].input.applicantId = "amy@corp"

\* C13: the update of a REQUEST event on a stored PENDING record leaves the
\* record with the event's task token and with every other attribute as it
\* was: key, status PENDING, applicant, interval.
C13_RequestAttachesToken ==
    [][\A e \in 1..Len(ntf) :
          LET command == ntf[e].command
          IN  (/\ ntf[e].pc = "update"
               /\ ntf'[e].pc # "update"
               /\ command.op = "SET task_token"
               /\ Attr(GetItem(table, command.key), "status") = "PENDING")
              => (/\ DOMAIN table' = DOMAIN table
                  /\ DOMAIN table'[command.key] =
                         DOMAIN table[command.key] \cup {"task_token"}
                  /\ table'[command.key].task_token = ntf[e].event.task_token
                  /\ \A a \in DOMAIN table[command.key] \ {"task_token"} :
                         table'[command.key][a] = table[command.key][a])]_vars

\* the stored record carries the token of the event, all else as stored
C13_Witness ==
    /\ NotifyReturned
    /\ returned.resp.message = "Admin notifications sent"
    /\ returned.event.input.type = "REQUEST"
    /\ table = SetTaskToken(Assign(<<>>, StoredLeave.leaveId, StoredLeave),
                            StoredLeave.leaveId, returned.event.task_token)

\* C14: an ACCEPT event that succeeds leaves its record with status
\* ACCEPTED and a REJECT event with status REJECTED, in both cases without
\* a token; one message was sent and its only recipient is the applicant.
C14_DecisionEventOutcome ==
    (/\ NotifyReturned
     /\ returned.resp.success
     /\ returned.event.input.type \in AcceptSpellings \cup RejectSpellings)
    => LET input == returned.event.input
           item == GetItem(table, EventKey(input))
       IN  /\ Attr(item, "status") =
                  (IF input.type \in AcceptSpellings THEN "ACCEPTED"
                   ELSE "REJECTED")
           /\ "task_token" \notin DOMAIN item
           /\ Cardinality(CallsOf("SendEmail")) = 1
           /\ Len(outbox) = 1
           /\ outbox[1].recipients = <<input.applicantId>>

\* a REJECT event has decided the stored record
C14_Witness ==
    /\ NotifyReturned
    /\ returned.resp.success
    /\ returned.event.input.type = "REJECT"
    /\ table = RemoveTokenSetStatus(
                   Assign(<<>>, StoredLeave.leaveId, StoredLeave),
                   StoredLeave.leaveId, "REJECTED")
    /\ outbox[1].subject = "Leave Application Rejected"

\* C15: an event delivered to notify_users for a record that is already
\* ACCEPTED or REJECTED is turned down: no message is sent and no update
\* of the store is prepared.
C15_TerminalEventsIgnored ==
    [][\A e \in 1..Len(execs) :
          (/\ execs[e].state \in {"STARTED", "RESUMED"}
           /\ execs'[e].state # execs[e].state
           /\ Attr(GetItem(table, EventKey(NotifyEvent(execs[e]).input)),
                   "status") \in TerminalStatuses)
          => (outbox' = outbox /\ ntf'[e].pc # "update")]_vars

\* C16: a resolve whose read finds no item answers with the not-found
\* error and has made no call but that read: no engine call, no write.
C16_NotFoundNoEffect ==
    (ResolveReturned /\ HasRead /\ FirstRead.result = "empty")
    => (/\ returned.resp =
              ErrorResponse("Leave with ID " \o returned.event.leaveId
                              \o " not found")
        /\ Len(returned.calls) = 1)

C16_Witness ==
    /\ ResolveReturned /\ HasRead /\ FirstRead.result = "empty"
    /\ returned.resp.statusCode = 500
    /\ FirstRead.target \notin DOMAIN table
    /\ SignalsMade = {}

\* C17: a resolve on a PENDING record with an action other than accept and
\* reject makes one SendTaskFailure call, with the token stored on the
\* record and the error InvalidAction, makes no SendTaskSuccess call and
\* answers 400 invalid action.
C17_InvalidActionReported ==
    (/\ ResolveReturned /\ HasRead /\ FirstRead.detail = "PENDING"
     /\ PathAction(returned.event.path) \notin {"accept", "reject"})
    => (/\ Cardinality(SignalsMade) = 1
        /\ \A i \in SignalsMade :
              /\ returned.calls[i].op = "SendTaskFailure"
              /\ returned.calls[i].detail = [error |-> "InvalidAction"]
              /\ returned.calls[i].target # Undefined
              /\ returned.calls[i].target =
                     Attr(GetItem(table, FirstRead.target), "task_token")
        /\ returned.resp.statusCode = 400)

\* C18: the engine call of a resolve with action accept or reject on a
\* record it read as PENDING is one SendTaskSuccess call: its token is the
\* task_token of the record read, its payload has the type of the action
\* and the applicant and interval of the record as stored; the step makes
\* no SendTaskFailure call and leaves the table as it is.
C18_DecisionCallPayload ==
    [][\A p \in ResolveProcs :
          LET action == PathAction(res[p].event.path)
              stored == GetItem(table, ResumeKey(res[p].event.leaveId))
              calls == returned'.calls
          IN  (/\ res[p].pc = "signal"
               /\ res'[p].pc # "signal"
               /\ action \in {"accept", "reject"})
              => (/\ returned'.fn = "resume_machine"
                  /\ Len(calls) = 2
                  /\ calls[2].op = "SendTaskSuccess"
                  /\ calls[2].target = Attr(res[p].item, "task_token")
                  /\ calls[2].detail =
                        [type |-> IF action = "accept" THEN "ACCEPT"
                                  ELSE "REJECT",
                         applicantId |-> stored.applicantId,
                         applicantName |-> stored.applicantName,
                         fromDate |-> stored.fromDate,
                         toDate |-> stored.toDate]
                  /\ table' = table)]_vars

\* a reject decision the engine took, made with the record's token
C18_Witness ==
    /\ ResolveReturned
    /\ returned.resp.statusCode = 200
    /\ PathAction(returned.event.path) = "reject"
    /\ \E i \in SignalsMade :
          /\ returned.calls[i].op = "SendTaskSuccess"
          /\ returned.calls[i].detail.type = "REJECT"
          /\ returned.calls[i].target =
                 Attr(GetItem(table, FirstRead.target), "task_token")
          /\ returned.calls[i].result = "ok"

\* C19: a REQUEST event without a task token fails with MissingTaskToken
\* in the step that receives it: no lookup, no message, no write.
C19_MissingTokenFirst ==
    [][(/\ returned' # returned
        /\ returned'.fn = "notify_users"
        /\ returned'.event.input.type \in RequestSpellings
        /\ FieldsPresent(returned'.event.input)
        /\ ~Truthy(returned'.event.task_token))
       => (/\ returned'.resp.error = "MissingTaskToken"
           /\ returned'.calls = <<>>
           /\ outbox' = outbox /\ outbox = <<>>
           /\ table' = table)]_vars

C19_Witness ==
    /\ NotifyReturned
    /\ returned.event.input.type = "REQUEST"
    /\ FieldsPresent(returned.event.input)
    /\ returned.event.task_token = Undefined
    /\ returned.resp.error = "MissingTaskToken"
    /\ Len(admins) > 0

\* the upper-case spelling of the types the handler knows
Canonical(type) ==
    IF type \in RequestSpellings THEN "REQUEST"
    ELSE IF type \in AcceptSpellings THEN "ACCEPT"
    ELSE IF type \in RejectSpellings THEN "REJECT"
    ELSE type

\* an event the handler must turn down
BadEvent(input) ==
    \/ ~Truthy(input.type)
    \/ ~FieldsPresent(input)
    \/ Canonical(input.type) \notin {"REQUEST", "ACCEPT", "REJECT"}

\* C20: an event without a type, with a type that is no spelling of
\* REQUEST, ACCEPT or REJECT, or without one of its four fields fails with
\* InvalidEvent in the step that receives it, with no lookup, message or
\* write; any other event is handled as the event with the upper-case type.
C20_InvalidEventAndCase ==
    [][\A e \in 1..Len(execs) :
          LET event == NotifyEvent(execs[e])
              input == event.input
              upper == NotifyHandle([input EXCEPT !.type = Canonical(@)],
                                    event.task_token, admins)
          IN  (execs[e].state = "STARTED" /\ execs'[e].state # "STARTED")
              => /\ BadEvent(input) =>
                       /\ returned' = Return("notify_users", event,
                                             Thrown("InvalidEvent"), <<>>)
                       /\ outbox' = outbox /\ table' = table /\ ntf' = ntf
                 /\ ~BadEvent(input) =>
                       IF upper.error # "none"
                       THEN returned'.resp = Thrown(upper.error)
                       ELSE \/ /\ outbox' = Append(outbox, upper.mail)
                               /\ ntf'[e].command = upper.command
                            \/ /\ returned'.resp = Thrown("NotificationError")
                               /\ Len(upper.mail.recipients) = 0]_vars

\* an unknown type with every field given
C20_Witness ==
    /\ NotifyReturned
    /\ returned.event.input.type = "INVALID_TYPE"
    /\ FieldsPresent(returned.event.input)
    /\ returned.resp.error = "InvalidEvent"
    /\ returned.calls = <<>>

(***************************************************************************)
(* Properties of notify_users when services fail.                          *)
(***************************************************************************)
\* a call of the invocation that returned was answered with an error
CallFailed ==
    \E i \in DOMAIN returned.calls : returned.calls[i].result = "error"

\* C21: an invocation in which the directory query, the sending of the
\* message or the update of the store fails ends with NotificationError and
\* only such an invocation does; it succeeds only if every service it needs
\* is up; an invalid event, a REQUEST without token and a REQUEST for which
\* the query answers with no administrator end with InvalidEvent,
\* MissingTaskToken and NoAdminsFound.
C21_FailuresBecomeNotificationError ==
    NotifyReturned =>
        LET input == returned.event.input
            error == returned.resp.error
            request == ~BadEvent(input) /\ Canonical(input.type) = "REQUEST"
        IN  /\ CallFailed => returned.resp = Thrown("NotificationError")
            /\ error = "NotificationError" => CallFailed
            /\ returned.resp.success =>
                  /\ "SendEmail" \notin faults
                  /\ "UpdateCommand" \notin faults
                  /\ request => "QueryCommand" \notin faults
            /\ BadEvent(input) => error = "InvalidEvent"
            /\ (request /\ ~Truthy(returned.event.task_token))
                  => error = "MissingTaskToken"
            /\ (/\ request /\ Truthy(returned.event.task_token)
                /\ "QueryCommand" \notin faults /\ Len(admins) = 0)
                  => error = "NoAdminsFound"

\* the message went out and the update of the store failed
C21_Witness ==
    /\ NotifyReturned
    /\ "UpdateCommand" \in faults
    /\ Len(outbox) = 1
    /\ returned.resp = Thrown("NotificationError")
    /\ returned.calls[Len(returned.calls)].op = "UpdateCommand"
    /\ returned.calls[Len(returned.calls)].result = "error"

(***************************************************************************)
(* Properties of validateDateInputs.  The rules are stated on the          *)
(* arguments: the times of day the model knows and the instants they give. *)
(***************************************************************************)
Validated == pure.fn = "validateDateInputs" /\ pure.done

WellFormedTimes == {"06:00", "18:00"}

\* the instants into the day of a well-formed time
TimeOfDay(time) == IF time = "06:00" THEN 250 ELSE 750

BadDates(args) == DateParse(args.from) = NaN \/ DateParse(args.to) = NaN

BadTimes(args) ==
    \/ args.fromTime # Undefined /\ args.fromTime \notin WellFormedTimes
    \/ args.toTime # Undefined /\ args.toTime \notin WellFormedTimes

\* fromDate at fromTime, else at 00:00:00.000
FromInstant(args) ==
    DateParse(args.from)
    + (IF args.fromTime = Undefined THEN 0 ELSE TimeOfDay(args.fromTime))

\* toDate at toTime, else at 23:59:59.999
ToInstant(args) ==
    DateParse(args.to)
    + (IF args.toTime = Undefined THEN DayMs - 1 ELSE TimeOfDay(args.toTime))

WellFormed(args) == ~BadDates(args) /\ ~BadTimes(args)

RangeInverted(args) == FromInstant(args) > ToInstant(args)

PastDate(args) == FromInstant(args) < args.clock

DateFormatMessage == "Invalid date format ex: (MM/DD/YYYY), (YYYY-MM-DD)"

TimeFormatMessages ==
    {"Invalid fromTime format. Expected HH:MM in 24-hour format.",
     "Invalid toTime format. Expected HH:MM in 24-hour format."}

OrderMessages ==
    {"from date cannot be later than to date",
     "from date and time cannot be later than to date",
     "from date cannot be later than to date and time",
     "from date and time cannot be later than to date and time"}

PastMessage == "from date and time cannot be in the past"

\* C22: the result of the validator is the failure of the first rule its
\* arguments violate, in the order date format, time format, order of from
\* and to, past.
C22_FirstFailureWins ==
    Validated =>
        LET args == pure.args
            result == pure.result
        IN  IF BadDates(args)
            THEN result = InvalidResult(DateFormatMessage)
            ELSE IF BadTimes(args)
            THEN ~result.valid /\ result.message \in TimeFormatMessages
            ELSE IF RangeInverted(args)
            THEN ~result.valid /\ result.message \in OrderMessages
            ELSE PastDate(args) => result = InvalidResult(PastMessage)

\* a well-formed request that is both inverted and in the past
C22_Witness ==
    /\ Validated
    /\ WellFormed(pure.args)
    /\ pure.args.fromTime # Undefined
    /\ RangeInverted(pure.args) /\ PastDate(pure.args)
    /\ pure.result.message \in OrderMessages

\* C23: on well-formed arguments the validator fails with a message about
\* the order of from and to exactly when fromDate at fromTime (else at
\* 00:00:00.000) is later than toDate at toTime (else at 23:59:59.999);
\* the message names the times given: none, fromTime only or toTime only.
C23_RangeInvertedExactly ==
    (Validated /\ WellFormed(pure.args)) =>
        LET args == pure.args
            result == pure.result
            failed == ~result.valid /\ result.message \in OrderMessages
        IN  /\ failed <=> RangeInverted(args)
            /\ (failed /\ args.fromTime = Undefined /\ args.toTime = Undefined)
                 => result.message = "from date cannot be later than to date"
            /\ (failed /\ args.fromTime # Undefined /\ args.toTime = Undefined)
                 => result.message =
                        "from date and time cannot be later than to date"
            /\ (failed /\ args.fromTime = Undefined /\ args.toTime # Undefined)
                 => result.message =
                        "from date cannot be later than to date and time"

\* from at a time of day, later than the end of the to date
C23_Witness ==
    /\ Validated
    /\ WellFormed(pure.args)
    /\ pure.args.fromTime = "06:00" /\ pure.args.toTime = Undefined
    /\ RangeInverted(pure.args)
    /\ pure.result =
          InvalidResult("from date and time cannot be later than to date")

\* C24: on well-formed arguments with a fromTime whose from is not later
\* than its to, the validator fails as in the past exactly when fromDate at
\* fromTime is before the clock; a request whose date is before the clock
\* and whose date at fromTime is not is valid.
C24_TimeAwareNonPast ==
    (/\ Validated /\ WellFormed(pure.args)
     /\ pure.args.fromTime # Undefined
     /\ ~RangeInverted(pure.args))
    => /\ pure.result = InvalidResult(PastMessage) <=> PastDate(pure.args)
       /\ ~PastDate(pure.args) => pure.result = ValidResult

(***************************************************************************)
(* Properties of the stored records.                                       *)
(***************************************************************************)
\* C25: every item of the leave table has a from instant and a to instant,
\* and its from instant is not later than its to instant.
C25_StoredIntervalOrdered ==
    \A key \in DOMAIN table :
        LET item == table[key]
        IN  /\ DateParse(Attr(item, "fromDate")) # NaN
            /\ DateParse(Attr(item, "toDate")) # NaN
            /\ DateParse(item.fromDate) <= DateParse(item.toDate)

\* a decided record whose interval spans several days
C25_Witness ==
    \E key \in DOMAIN table :
        /\ DateParse(table[key].fromDate) < DateParse(table[key].toDate)
        /\ table[key].status \in TerminalStatuses

(***************************************************************************)
(* Properties of the identity of a request.                                *)
(***************************************************************************)
Derived == pure.fn = "getLeaveId" /\ pure.done

\* C26: the interval leave_generate stores for a body is the body's
\* normalized interval, and the identities of two bodies of one applicant
\* are the same exactly when their normalized intervals are: bodies with
\* the same dates and different times of day have different identities.
C26_IdentityOfNormalizedInterval ==
    Derived =>
        LET a == pure.args[1]
            b == pure.args[2]
            same == FromInstant(a) = FromInstant(b)
                    /\ ToInstant(a) = ToInstant(b)
        IN  /\ (pure.result[1].leaveId = pure.result[2].leaveId) <=> same
            /\ (pure.result[1].key = pure.result[2].key) <=> same
            /\ \A i \in {1, 2} :
                  /\ DateParse(pure.result[i].fromDate) = FromInstant(pure.args[i])
                  /\ DateParse(pure.result[i].toDate) = ToInstant(pure.args[i])

\* the larger of two numbers
Max(x, y) == IF x >= y THEN x ELSE y

\* C27: the timeout of the execution's input is the length of the body's
\* normalized interval, toDate at toTime (else at 23:59:59.999) less
\* fromDate at fromTime (else at 00:00:00.000), in whole seconds, and zero
\* when that length is zero or negative.
C27_TimeoutIsDuration ==
    Derived =>
        \A i \in {1, 2} :
            /\ pure.result[i].timeout >= 0
            /\ pure.result[i].timeout =
                  Max(0, FloorDiv1000(ToInstant(pure.args[i])
                                      - FromInstant(pure.args[i])))

\* C28: a leave_generate invocation whose pre-check read an item with a
\* status other than PENDING goes on: its put succeeds and stores under the
\* key an item with status PENDING and no task token, and its next step
\* starts one execution and answers 201 after these three calls.
C28_ResubmitOverDecided ==
    [][\A p \in SubmitProcs :
          LET read == sub[p].calls[1]
              key == read.target
              decided == /\ Len(sub[p].calls) >= 1
                         /\ read.result = "item" /\ read.detail # "PENDING"
          IN  /\ (sub[p].pc = "put" /\ sub'[p].pc # "put" /\ decided)
                 => /\ sub'[p].pc = "start"
                    /\ Len(sub'[p].calls) = 2
                    /\ sub'[p].calls[2] = Call("PutCommand", key, "", "ok")
                    /\ table' = Assign(table, key, table'[key])
                    /\ table'[key].status = "PENDING"
                    /\ "task_token" \notin DOMAIN table'[key]
              /\ (sub[p].pc = "start" /\ sub'[p].pc # "start" /\ decided)
                 => /\ returned'.fn = "leave_generate"
                    /\ returned'.resp =
                           ResponseObj(201, "Leave application submitted")
                    /\ Len(returned'.calls) = 3
                    /\ returned'.calls[3].op = "StartExecution"
                    /\ returned'.calls[3].target = key
                    /\ Len(execs') = Len(execs) + 1]_vars

\* a request made again after its first one was rejected
C28_Witness ==
    /\ SubmitReturned /\ HasRead
    /\ FirstRead.result = "item" /\ FirstRead.detail = "REJECTED"
    /\ returned.resp.statusCode = 201
    /\ Len(execs) = 2
    /\ table[FirstRead.target].status = "PENDING"

\* the attributes of a Leave as leave_generate stores it
LeaveAttributes ==
    {"leaveId", "status", "appliedOn", "reason", "applicantId",
     "applicantName", "fromDate", "toDate"}

\* C29: every item of the leave table is a Leave that leave_generate stored,
\* with or without a task token: it is stored under its leaveId, has every
\* attribute of a Leave and a status among PENDING, ACCEPTED and REJECTED;
\* notify_users adds no item to the table.
C29_OnlySubmitCreates ==
    \A key \in DOMAIN table :
        LET item == table[key]
        IN  /\ LeaveAttributes \subseteq DOMAIN item
            /\ DOMAIN item \subseteq LeaveAttributes \cup {"task_token"}
            /\ item.leaveId = key
            /\ item.status \in {"PENDING", "ACCEPTED", "REJECTED"}
            /\ item.appliedOn # Undefined
            /\ item.reason # Undefined

\* C30: the updates of notify_users write a record once each: the update
\* that attaches a task token finds a PENDING record without a token, and
\* the update that sets ACCEPTED or REJECTED finds a PENDING record; no
\* record gets a second token or a second decision.
C30_OneAttachOneDecision ==
    [][\A e \in 1..Len(ntf) :
          LET command == ntf[e].command
              item == GetItem(table, command.key)
          IN  (ntf[e].pc = "update" /\ ntf'[e].pc # "update")
              => /\ Attr(item, "status") = "PENDING"
                 /\ command.op = "SET task_token"
                      => "task_token" \notin DOMAIN item]_vars

(***************************************************************************)
(* Properties of leave_generate and resume_machine when a service is down. *)
(***************************************************************************)
\* the last call of the invocation that returned
LastCall == returned.calls[Len(returned.calls)]

\* the invocation that returned ended with a StartExecution that failed
StartFailed ==
    /\ SubmitReturned /\ Len(returned.calls) = 3
    /\ LastCall.op = "StartExecution" /\ LastCall.result = "error"

\* C31: a leave_generate invocation whose StartExecution fails after its
\* put answers 500 and leaves the item it put in the table, PENDING and
\* without a task token; while the engine cannot be started, a later
\* request whose pre-check finds such an item answers 409.
C31_NoRollbackThenConflict ==
    /\ StartFailed =>
          /\ returned.resp = ResponseObj(500, "Internal server error")
          /\ returned.calls[2] = Call("PutCommand", LastCall.target, "", "ok")
          /\ LastCall.target \in DOMAIN table
          /\ table[LastCall.target].status = "PENDING"
          /\ "task_token" \notin DOMAIN table[LastCall.target]
          /\ execs = <<>>
    /\ (/\ "StartExecution" \in faults
        /\ SubmitReturned /\ HasRead /\ FirstRead.result = "item")
       => /\ returned.resp = ResponseObj(409,
                 "There is already a leave application for the given dates")
          /\ Len(returned.calls) = 1

\* the same request again, after the start of its execution failed
C31_Witness ==
    /\ "StartExecution" \in faults
    /\ SubmitReturned /\ HasRead /\ FirstRead.result = "item"
    /\ returned.resp.statusCode = 409
    /\ table[FirstRead.target].status = "PENDING"
    /\ "task_token" \notin DOMAIN table[FirstRead.target]
    /\ execs = <<>>

\* an event the claim calls invalid input: no body or a body that is no
\* string; a body without from or to, with a date that does not parse, with
\* from later than to or before the clock; no applicant id or name
InvalidInput(event, clock) ==
    \/ event.bodyKind \in {"absent", "object"}
    \/ /\ event.bodyKind = "json"
       /\ \/ event.from \in {Undefined, ""} \/ event.to \in {Undefined, ""}
          \/ DateParse(event.from) = NaN \/ DateParse(event.to) = NaN
          \/ DateParse(event.from) > DateParse(event.to)
          \/ DateParse(event.from) < clock
          \/ event.userId = "" \/ event.userName = ""

Authorized == pure.fn = "authorizer" /\ pure.done

\* the token of a header value, with or without the Bearer prefix
CarriedToken(headers) ==
    LET values == {headers[n] : n \in DOMAIN headers}
    IN  IF values \cap {"Bearer full.jwt", "full.jwt"} # {} THEN "full.jwt"
        ELSE IF "bearer   anon.jwt " \in values THEN "anon.jwt"
        ELSE IF "Bearer forged.jwt" \in values THEN "forged.jwt"
        ELSE IF "Bearer" \in values THEN "Bearer"
        ELSE ""

\* the signing secret of an answer, "" when it holds none
SigningSecret(secret) ==
    IF secret.rejected THEN ""
    ELSE IF secret.SecretString = "{\"JWT_SECRET\":\"s3cret\"}" THEN "s3cret"
    ELSE IF secret.SecretString = "{\"JWT_SECRET\":\"other\"}" THEN "other"
    ELSE ""

\* the tokens signed with the secret s3cret
SignedTokens == {"full.jwt", "anon.jwt"}

\* C33: the authorizer returns an Allow policy exactly when the header
\* carries a token, the secrets manager answers with a non-empty
\* JWT_SECRET and the token verifies under it; the policy then has the
\* context userId and userName of the token's claims, "" for a claim the
\* token lacks; in every other case it returns a Deny policy without
\* context.
C33_AllowOnlyVerified ==
    Authorized =>
        LET token == CarriedToken(pure.args.event.headers)
            secret == SigningSecret(pure.args.secret)
            verified == /\ token # "" /\ secret # ""
                        /\ secret = "s3cret" /\ token \in SignedTokens
            result == pure.result
        IN  /\ result.Effect = (IF verified THEN "Allow" ELSE "Deny")
            /\ result.Resource = pure.args.event.methodArn
            /\ verified =>
                  result.context =
                      IF token = "full.jwt"
                      THEN [userId |-> "amy@corp", userName |-> "Amy"]
                      ELSE [userId |-> "", userName |-> ""]
            /\ ~verified => "context" \notin DOMAIN result

\* a verified token without claims: Allow with an empty context
C33_Witness ==
    /\ Authorized
    /\ CarriedToken(pure.args.event.headers) = "anon.jwt"
    /\ pure.result.Effect = "Allow"
    /\ pure.result.context = [userId |-> "", userName |-> ""]

(***************************************************************************)
(* Order of the message and the update in notify_users.                    *)
(***************************************************************************)
\* C34: notify_users updates the table only after its message was sent:
\* while the mail transport is down the table never changes; a step that
\* changes the table ends an invocation whose calls hold a successful send
\* before the update; an invocation whose send failed returns with the
\* table as it was and no update made or pending.
C34_UpdateAfterDispatch ==
    [][/\ "SendEmail" \in faults => table' = table
       /\ table' # table =>
             /\ returned'.fn = "notify_users"
             /\ \E i, j \in DOMAIN returned'.calls :
                   /\ i < j
                   /\ returned'.calls[i].op = "SendEmail"
                   /\ returned'.calls[i].result = "ok"
                   /\ returned'.calls[j].op = "UpdateCommand"
       /\ (/\ returned' # returned
           /\ returned'.fn = "notify_users"
           /\ \E i \in DOMAIN returned'.calls :
                 /\ returned'.calls[i].op = "SendEmail"
                 /\ returned'.calls[i].result = "error")
          => /\ table' = table
             /\ returned'.resp = Thrown("NotificationError")
             /\ \A i \in DOMAIN returned'.calls :
                   returned'.calls[i].op # "UpdateCommand"
             /\ \A e \in 1..Len(ntf') : ntf'[e].pc # "update"]_vars

\* an ACCEPT event whose message was not sent: the record keeps its token
C34_Witness ==
    /\ NotifyReturned
    /\ "SendEmail" \in faults
    /\ returned.event.input.type = "ACCEPT"
    /\ returned.resp = Thrown("NotificationError")
    /\ returned.calls[1].op = "SendEmail"
    /\ returned.calls[1].result = "error"
    /\ StoredLeave.leaveId \in DOMAIN table
    /\ table[StoredLeave.leaveId].status = "PENDING"
    /\ Attr(table[StoredLeave.leaveId], "task_token") = TaskToken(0)

(***************************************************************************)
(* Order of the calls of leave_generate.                                   *)
(***************************************************************************)
SubmitCallOrder == <<"GetCommand", "PutCommand", "StartExecution">>

\* C35: the calls of a leave_generate invocation are its read, its put and
\* its StartExecution, in this order and up to the first one that fails;
\* a failed call ends the invocation with 500, and 201 is answered only
\* after a put and a StartExecution that both succeeded.  While the table
\* rejects reads or puts nothing is stored and no execution is started,
\* and a step that returns after a failed call changes neither.
C35_SubmitStopsAtFirstFailure ==
    /\ [](/\ (faults \cap {"GetCommand", "PutCommand"} # {})
             => (table = <<>> /\ execs = <<>>)
          /\ SubmitReturned =>
                LET calls == returned.calls
                IN  /\ Len(calls) <= 3
                    /\ \A i \in DOMAIN calls :
                          /\ calls[i].op = SubmitCallOrder[i]
                          /\ calls[i].result \notin {"ok", "item", "empty"}
                             => /\ i = Len(calls)
                                /\ returned.resp =
                                     ResponseObj(500, "Internal server error")
                    /\ returned.resp.statusCode = 201
                       <=> (/\ Len(calls) = 3
                            /\ calls[2].result = "ok"
                            /\ calls[3].result = "ok"))
    /\ [][(/\ returned' # returned
           /\ returned'.fn = "leave_generate"
           /\ Len(returned'.calls) >= 1
           /\ returned'.calls[Len(returned'.calls)].result = "error")
          => (table' = table /\ execs' = execs)]_vars

\* the put failed after the read: nothing stored, nothing started
C35_Witness ==
    /\ SubmitReturned
    /\ Len(returned.calls) = 2
    /\ returned.calls[1].result = "empty"
    /\ returned.calls[2].op = "PutCommand"
    /\ returned.calls[2].result = "error"
    /\ returned.resp.statusCode = 500
    /\ table = <<>> /\ execs = <<>>

(***************************************************************************)
(* A callback of resume_machine that fails.                                *)
(***************************************************************************)
\* the invocation that returned ended with an engine call that failed
SignalFailed ==
    /\ ResolveReturned /\ Len(returned.calls) = 2
    /\ LastCall.op \in EngineCalls /\ LastCall.result = "error"

\* C36: a resume_machine invocation whose SendTaskSuccess or SendTaskFailure
\* call fails answers 500; the step changes neither the table nor the
\* executions, the item it read is still stored with status PENDING, and
\* the same request is still among the requests that can be made.
C36_FailedCallbackLeavesPending ==
    [][(/\ returned' # returned
        /\ returned'.fn = "resume_machine"
        /\ Len(returned'.calls) = 2
        /\ returned'.calls[2].op \in EngineCalls
        /\ returned'.calls[2].result = "error")
       => /\ returned'.resp.statusCode = 500
          /\ table' = table
          /\ execs' = execs
          /\ returned'.event.leaveId \in DOMAIN table'
          /\ table'[returned'.event.leaveId].status = "PENDING"
          /\ returned'.event \in ResolveEvents(outbox', table')]_vars

\* the engine is down: the decision on a notified request fails with 500
\* and the item keeps status PENDING and the token of its execution
C36_Witness ==
    /\ SignalFailed
    /\ "SendTask" \in faults
    /\ LastCall.op = "SendTaskSuccess"
    /\ returned.resp.statusCode = 500
    /\ table[returned.event.leaveId].status = "PENDING"
    /\ \E i \in DOMAIN execs :
          /\ execs[i].state = "AWAITING"
          /\ execs[i].token = LastCall.target
          /\ Attr(table[returned.event.leaveId], "task_token") = execs[i].token

(***************************************************************************)
(* The identity notify_users derives and the record it updates.            *)
(***************************************************************************)
\* the key leave_generate stored the record of an execution under
StartedKey(exec) == exec.input.leaveId

\* C37: the key of every stored item is its leaveId and is getLeaveId of
\* its own applicantId, fromDate and toDate; the leaveId notify_users
\* derives from the event of an execution, the input leave_generate started
\* it with or the output resume_machine resumed it with, is the key of the
\* item leave_generate stored, and the update of notify_users changes that
\* item and no other and adds none.
C37_NotifyUpdatesItsRecord ==
    /\ [](/\ \A k \in DOMAIN table :
                /\ Attr(table[k], "leaveId") = k
                /\ k = getLeaveId(Attr(table[k], "applicantId"),
                                  DateParse(Attr(table[k], "fromDate")),
                                  DateParse(Attr(table[k], "toDate")))
          /\ \A e \in 1..Len(execs) :
                /\ StartedKey(execs[e]) \in DOMAIN table
                /\ execs[e].state \in {"STARTED", "RESUMED"}
                   => NotifyLeaveId(NotifyEvent(execs[e]).input)
                        = StartedKey(execs[e])
                /\ ntf[e].pc = "update"
                   => ntf[e].command.key = StartedKey(execs[e]))
    /\ [][\A e \in 1..Len(ntf) :
             (ntf[e].pc = "update" /\ ntf'[e].pc # "update")
             => /\ DOMAIN table' = DOMAIN table
                /\ \A k \in DOMAIN table :
                      k # StartedKey(execs[e]) => table'[k] = table[k]]_vars

\* the decision of one request was recorded on its item while the item of
\* another request stays as it was stored
C37_Witness ==
    /\ NotifyReturned
    /\ \E e \in 1..Len(execs), k \in DOMAIN table :
          /\ execs[e].state = "RESOLVED"
          /\ LastCall.op = "UpdateCommand"
          /\ LastCall.target = StartedKey(execs[e])
          /\ Attr(table[StartedKey(execs[e])], "status") \in TerminalStatuses
          /\ k # StartedKey(execs[e])
          /\ Attr(table[k], "status") = "PENDING"

(***************************************************************************)
(* Executions that wait for a decision.                                    *)
(***************************************************************************)
\* the executions that wait for their callback, their REQUEST invocation of
\* notify_users over
Waiting ==
    {e \in 1..Len(execs) : execs[e].state = "AWAITING" /\ ntf[e].pc # "update"}

\* C38: at most one execution per leaveId waits for its callback, and the
\* task_token of the stored item is the token of that execution.
C38_OneWaitingPerIdentity ==
    /\ \A e, f \in Waiting :
          StartedKey(execs[e]) = StartedKey(execs[f]) => e = f
    /\ \A e \in Waiting :
          Attr(GetItem(table, StartedKey(execs[e])), "task_token")
            = execs[e].token

(***************************************************************************)
(* The decision resume_machine reported and the status that is stored.     *)
(***************************************************************************)
\* the status of the decision an execution was resumed with
DecidedStatus(exec) ==
    IF exec.output.type = "ACCEPT" THEN "ACCEPTED" ELSE "REJECTED"

\* the executions resumed by a decision whose update of the item is made,
\* each the last one started for its leaveId
LastDecided ==
    {e \in 1..Len(execs) :
        /\ execs[e].state = "RESOLVED"
        /\ \A f \in 1..Len(execs) :
              StartedKey(execs[f]) = StartedKey(execs[e]) => f <= e}

\* C39: when resume_machine answered 200 to accept or reject and the
\* execution it resumed has made its update, the status stored for the
\* leaveId, once it is ACCEPTED or REJECTED, is the one of that action: an
\* accept that succeeded is not followed by REJECTED, nor a reject that
\* succeeded by ACCEPTED.
C39_FinalStatusIsDecision ==
    \A e \in LastDecided :
        LET status == Attr(GetItem(table, StartedKey(execs[e])), "status")
        IN  status \in TerminalStatuses => status = DecidedStatus(execs[e])

=============================================================================
